---- MODULE Spec2Model ----
(***************************************************************************)
(* Dual-extractor reconciliation engine of bazos-analysis:                 *)
(*   ml/mileage_resolver.py    normalisation, classification, resolution   *)
(*   ml/production_extractor.py  listing comparison, routing, statistics   *)
(* Strings are sequences of one-character strings, so that strip, lower,   *)
(* re.sub and re.match are computed character by character.               *)
(* Confidences are percentages (0.95 is 95).                               *)
(***************************************************************************)
EXTENDS Integers, Sequences, FiniteSets, TLC

VARIABLES
    call,      \* a direct call of resolve_mileage / resolve_power: its arguments
    res,       \* what that call returned (NoResult before it returns)
    stats,     \* ProductionExtractor.stats
    auto_training_queue,   \* ProductionExtractor.auto_training_queue (in memory)
    review_queue,          \* ProductionExtractor.review_queue (in memory)
    inp,       \* the last extract call: arguments, extractor outputs, comparison
    resp,      \* the record the last extract call returned
    auto_training_file,    \* auto_training_data.json on disk
    review_queue_file,     \* review_queue.json on disk
    stats_file,            \* extraction_stats.json on disk
    flush,     \* the extractor's save_queues call: its position and its locals
    peer,      \* a second process flushing to the same files
    reviewed_data_file,    \* manual_review_data.json on disk
    review,    \* the reviewer's review_all call: its position and its locals
    backup_file,           \* auto_training_data.json.backup on disk
    fetch,     \* the scraper's fetch_data coroutines: position and locals of each
    semaphore  \* the free permits of the scraper's asyncio.Semaphore

disk == <<auto_training_file, review_queue_file, stats_file>>

\* the state of the review tool and of the overlap fixer
offline == <<reviewed_data_file, review, backup_file>>

\* the state of the fetch pipeline
upstream == <<fetch, semaphore>>

vars ==
    <<call, res, stats, auto_training_queue, review_queue, inp, resp,
      auto_training_file, review_queue_file, stats_file, flush, peer,
      reviewed_data_file, review, backup_file, fetch, semaphore>>

----------------------------------------------------------------------------
(* Python values: None, a str, or a value that is not a str (an int).      *)

None == [t |-> "none", s |-> <<>>]

Str(s) == [t |-> "str", s |-> s]

NotAStr(s) == [t |-> "int", s |-> s]

\* bool(v) of Python: None and "" are falsy, a non-empty str and a non-zero int truthy
Truthy(v) == v.t /= "none" /\ v.s /= <<>>

\* isinstance(v, str)
IsStr(v) == v.t = "str"

Digits == {"0", "1", "2", "3", "4", "5", "6", "7", "8", "9"}

LowerLetters ==
    {"a", "b", "c", "d", "e", "f", "g", "h", "i", "j", "k", "l", "m",
     "n", "o", "p", "q", "r", "s", "t", "u", "v", "w", "x", "y", "z"}

UpperLetters ==
    <<"A", "B", "C", "D", "E", "F", "G", "H", "I", "J", "K", "L", "M",
      "N", "O", "P", "Q", "R", "S", "T", "U", "V", "W", "X", "Y", "Z">>

LowerOf ==
    <<"a", "b", "c", "d", "e", "f", "g", "h", "i", "j", "k", "l", "m",
      "n", "o", "p", "q", "r", "s", "t", "u", "v", "w", "x", "y", "z">>

LowerChar(c) ==
    IF \E i \in 1..26 : UpperLetters[i] = c
    THEN LowerOf[CHOOSE i \in 1..26 : UpperLetters[i] = c]
    ELSE c

IsDigit(c) == c \in Digits

IsSpace(c) == c = " "

IsLower(c) == c \in LowerLetters

\* str.lower()
Lower(s) == [i \in 1..Len(s) |-> LowerChar(s[i])]

RECURSIVE LStrip(_)
LStrip(s) == IF s /= <<>> /\ IsSpace(Head(s)) THEN LStrip(Tail(s)) ELSE s

RECURSIVE RStrip(_)
RStrip(s) ==
    IF s /= <<>> /\ IsSpace(s[Len(s)]) THEN RStrip(SubSeq(s, 1, Len(s) - 1)) ELSE s

\* str.strip()
Strip(s) == RStrip(LStrip(s))

\* the longest prefix of s whose characters all satisfy the class
RECURSIVE SpanLen(_, _, _)
SpanLen(s, i, cls) ==
    IF i <= Len(s) /\ s[i] \in cls THEN SpanLen(s, i + 1, cls) ELSE i - 1

\* variant of the substitution: the blanks between digits are kept
KeepDigitGaps(s, i) == s

\* re.sub(r'(\d)\s+(\d)', r'\1\2', s): leftmost, non-overlapping matches; the
\* scan resumes after the second digit of a match
RECURSIVE SubDigitGaps(_, _)
SubDigitGaps(s, i) ==
    IF i > Len(s) THEN <<>>
    ELSE LET j == SpanLen(s, i + 1, {" "}) + 1   \* first position after the blanks
         IN IF IsDigit(s[i]) /\ j > i + 1 /\ j <= Len(s) /\ IsDigit(s[j])
            THEN <<s[i], s[j]>> \o SubDigitGaps(s, j + 1)
            ELSE <<s[i]>> \o SubDigitGaps(s, i + 1)

RECURSIVE ToInt(_)
ToInt(ds) ==
    IF ds = <<>> THEN 0
    ELSE 10 * ToInt(SubSeq(ds, 1, Len(ds) - 1))
         + (CHOOSE n \in 0..9 : ToString(n) = ds[Len(ds)])

\* position of the first digit of s at or after i, 0 when there is none
RECURSIVE FirstDigit(_, _)
FirstDigit(s, i) ==
    IF i > Len(s) THEN 0 ELSE IF IsDigit(s[i]) THEN i ELSE FirstDigit(s, i + 1)

----------------------------------------------------------------------------
(* MileageNormalizer                                                       *)

km == <<"k", "m">>

mi == <<"m", "i">>

UNITS ==
    (km :> km)
    @@ (<<"k", "i", "l", "o", "m", "e", "t", "e", "r">> :> km)
    @@ (<<"k", "i", "l", "o", "m", "e", "t", "e", "r", "s">> :> km)
    @@ (<<"k", "i", "l", "o", "m", "e", "t", "r", "e">> :> km)
    @@ (<<"k", "i", "l", "o", "m", "e", "t", "r", "e", "s">> :> km)
    @@ (mi :> mi)
    @@ (<<"m", "i", "l", "e">> :> mi)
    @@ (<<"m", "i", "l", "e", "s">> :> mi)

\* the shared body of the two normalizers: units is the table of the field
NormalizeWith(units, raw_value) ==
    IF ~Truthy(raw_value) \/ ~IsStr(raw_value) THEN None
    ELSE LET cleaned == SubDigitGaps(Lower(Strip(raw_value.s)), 1)
             nd == SpanLen(cleaned, 1, Digits)              \* (\d+)
             ns == SpanLen(cleaned, nd + 1, {" "})          \* \s*
             nu == SpanLen(cleaned, ns + 1, LowerLetters)   \* ([a-z]+)
             number == SubSeq(cleaned, 1, nd)
             unit == SubSeq(cleaned, ns + 1, nu)
         IN IF nd = 0 \/ nu = ns THEN None
            ELSE IF unit \notin DOMAIN units THEN None
            ELSE Str(number \o units[unit])

\* variant of normalize: the unit table also holds the power unit kw
normalize_any_unit(raw_value) ==
    NormalizeWith(UNITS @@ (<<"k", "w">> :> <<"k", "w">>), raw_value)

normalize(raw_value) == NormalizeWith(UNITS, raw_value)

NoNumber == -1

\* extract_numeric: the first digit run, after the blanks between digits are removed
extract_numeric(raw_value) ==
    IF ~Truthy(raw_value) \/ ~IsStr(raw_value) THEN NoNumber
    ELSE LET cleaned == SubDigitGaps(raw_value.s, 1)
             a == FirstDigit(cleaned, 1)
         IN IF a = 0 THEN NoNumber
            ELSE ToInt(SubSeq(cleaned, a, SpanLen(cleaned, a, Digits)))

----------------------------------------------------------------------------
(* MileageResolver                                                         *)

\* variant of _classify_disagreement: the numeric comparison is left out, so two
\* present values that differ in their canonical form are always MAJOR
classify_by_canonical(normalized_ml, normalized_regex) ==
    IF normalized_ml = None /\ normalized_regex = None THEN "NONE"
    ELSE IF normalized_ml /= None /\ normalized_regex /= None
    THEN IF normalized_ml = normalized_regex THEN "NONE" ELSE "MAJOR"
    ELSE "MINOR_FORMATTING"

classify_disagreement(normalized_ml, normalized_regex) ==
    IF normalized_ml = None /\ normalized_regex = None THEN "NONE"
    ELSE IF normalized_ml /= None /\ normalized_regex /= None
    THEN IF normalized_ml = normalized_regex THEN "NONE"
         ELSE IF extract_numeric(normalized_ml) = extract_numeric(normalized_regex)
              THEN "MINOR_FORMATTING"
              ELSE "MAJOR"
    ELSE "MINOR_FORMATTING"

Outcome(v, m, c) == [value |-> v, method |-> m, confidence |-> c]

\* Python's  a or b
PyOr(a, b) == IF Truthy(a) THEN a ELSE b

\* variant of case 1: the canonical form is returned instead of the raw value
resolve_none_canonical(ml_raw, regex_raw, normalized_ml) ==
    IF normalized_ml /= None
    THEN [value |-> normalized_ml, method |-> "AUTO_NORMALIZED", confidence |-> 95]
    ELSE [value |-> None, method |-> "AUTO_NORMALIZED", confidence |-> 0]

\* _resolve_disagreement, case 1: no disagreement
resolve_none(ml_raw, regex_raw, normalized_ml) ==
    IF normalized_ml /= None
    THEN Outcome(PyOr(ml_raw, regex_raw), "AUTO_NORMALIZED", 95)
    ELSE Outcome(None, "AUTO_NORMALIZED", 0)

\* variant of case 2: the one-sided outcomes follow prefer_ml
resolve_minor_by_preference(prefer_ml, ml_raw, regex_raw, normalized_ml, normalized_regex) ==
    IF normalized_ml /= None /\ normalized_regex /= None
    THEN Outcome(IF prefer_ml THEN ml_raw ELSE regex_raw, "AUTO_NORMALIZED", 90)
    ELSE IF prefer_ml
    THEN Outcome(ml_raw, "ML_PREFERRED", 75)
    ELSE Outcome(regex_raw, "REGEX_PREFERRED", 80)

\* _resolve_disagreement, case 2: minor formatting difference
resolve_minor(prefer_ml, ml_raw, regex_raw, normalized_ml, normalized_regex) ==
    IF normalized_ml /= None /\ normalized_regex /= None
    THEN Outcome(IF prefer_ml THEN ml_raw ELSE regex_raw, "AUTO_NORMALIZED", 90)
    ELSE IF normalized_ml /= None
    THEN Outcome(ml_raw, "ML_PREFERRED", 75)
    ELSE Outcome(regex_raw, "REGEX_PREFERRED", 80)

\* variant of case 3: the first test does not read prefer_ml
resolve_major_ml_first(prefer_ml, ml_raw, regex_raw, normalized_ml, normalized_regex) ==
    IF normalized_ml /= None
    THEN Outcome(ml_raw, "ML_PREFERRED", 70)
    ELSE IF normalized_regex /= None
    THEN Outcome(regex_raw, "REGEX_PREFERRED", 70)
    ELSE Outcome(None, "AUTO_NORMALIZED", 0)

\* _resolve_disagreement, case 3: major disagreement
resolve_major(prefer_ml, ml_raw, regex_raw, normalized_ml, normalized_regex) ==
    IF prefer_ml /\ normalized_ml /= None
    THEN Outcome(ml_raw, "ML_PREFERRED", 70)
    ELSE IF ~prefer_ml /\ normalized_regex /= None
    THEN Outcome(regex_raw, "REGEX_PREFERRED", 70)
    ELSE IF normalized_ml /= None
    THEN Outcome(ml_raw, "ML_PREFERRED", 60)
    ELSE IF normalized_regex /= None
    THEN Outcome(regex_raw, "REGEX_PREFERRED", 70)
    ELSE Outcome(None, "AUTO_NORMALIZED", 0)

\* variant of _resolve_disagreement: case 1 is never taken, so that an agreement
\* ends in the fallback at the bottom
resolve_disagreement_no_case1(prefer_ml, ml_raw, regex_raw, nml, nrx, disagreement_type) ==
    IF disagreement_type = "MINOR_FORMATTING"
    THEN resolve_minor(prefer_ml, ml_raw, regex_raw, nml, nrx)
    ELSE IF disagreement_type = "MAJOR"
    THEN resolve_major(prefer_ml, ml_raw, regex_raw, nml, nrx)
    ELSE Outcome(PyOr(ml_raw, regex_raw), "AUTO_NORMALIZED", 50)

\* _resolve_disagreement
resolve_disagreement(prefer_ml, ml_raw, regex_raw, nml, nrx, disagreement_type) ==
    IF disagreement_type = "NONE" THEN resolve_none(ml_raw, regex_raw, nml)
    ELSE IF disagreement_type = "MINOR_FORMATTING"
    THEN resolve_minor(prefer_ml, ml_raw, regex_raw, nml, nrx)
    ELSE IF disagreement_type = "MAJOR"
    THEN resolve_major(prefer_ml, ml_raw, regex_raw, nml, nrx)
    ELSE Outcome(PyOr(ml_raw, regex_raw), "AUTO_NORMALIZED", 50)

Resolution(ml_raw, regex_raw, nml, nrx, dtype, value, method, confidence) ==
    [ml_raw |-> ml_raw, regex_raw |-> regex_raw,
     normalized_ml |-> nml, normalized_regex |-> nrx,
     disagreement_type |-> dtype, resolved_value |-> value,
     resolution_method |-> method, confidence |-> confidence]

\* resolve, the manual override branch
resolve_manual(ml_raw, regex_raw, manual_override) ==
    Resolution(ml_raw, regex_raw, normalize(ml_raw), normalize(regex_raw),
               "NONE", manual_override, "MANUAL", 100)

\* resolve without an override: normalize, classify, resolve
resolve_auto(prefer_ml, ml_raw, regex_raw) ==
    LET normalized_ml == normalize(ml_raw)
        normalized_regex == normalize(regex_raw)
        disagreement_type == classify_disagreement(normalized_ml, normalized_regex)
        resolution == resolve_disagreement(prefer_ml, ml_raw, regex_raw,
                          normalized_ml, normalized_regex, disagreement_type)
    IN Resolution(ml_raw, regex_raw, normalized_ml, normalized_regex,
                  disagreement_type, resolution.value, resolution.method,
                  resolution.confidence)

\* variant of resolve: the override is tested for truth (if manual_override:)
resolve_truthy_override(prefer_ml, ml_raw, regex_raw, manual_override) ==
    IF Truthy(manual_override)
    THEN resolve_manual(ml_raw, regex_raw, manual_override)
    ELSE resolve_auto(prefer_ml, ml_raw, regex_raw)

\* MileageResolver(prefer_ml).resolve(ml_raw, regex_raw, manual_override)
resolve(prefer_ml, ml_raw, regex_raw, manual_override) ==
    IF manual_override /= None
    THEN resolve_manual(ml_raw, regex_raw, manual_override)
    ELSE resolve_auto(prefer_ml, ml_raw, regex_raw)

resolve_mileage(ml_raw, regex_raw, prefer_ml, manual_override) ==
    resolve(prefer_ml, ml_raw, regex_raw, manual_override)

----------------------------------------------------------------------------
(* PowerResolver (ml/power_resolver.py): the module is imported by          *)
(* production_extractor.py and exercised by tests/test_power_resolver.py;  *)
(* it is modelled from the design's description of the resolver and from   *)
(* what those tests assert.                                                *)

kw == <<"k", "w">>

ps == <<"p", "s">>

PowerUNITS ==
    (kw :> kw) @@ (ps :> ps) @@ (<<"h", "p">> :> ps) @@ (<<"k", "o", "n">> :> ps)

power_normalize(raw_value) == NormalizeWith(PowerUNITS, raw_value)

\* test_major_disagreement_prefer_regex asserts 0.70 for the regex value,
\* test_major_disagreement_prefer_ml asserts 0.60 for the ML value
power_resolve_major(prefer_ml, ml_raw, regex_raw, normalized_ml, normalized_regex) ==
    IF ~prefer_ml /\ normalized_regex /= None
    THEN Outcome(regex_raw, "REGEX_PREFERRED", 70)
    ELSE IF normalized_ml /= None
    THEN Outcome(ml_raw, "ML_PREFERRED", 60)
    ELSE IF normalized_regex /= None
    THEN Outcome(regex_raw, "REGEX_PREFERRED", 70)
    ELSE Outcome(None, "AUTO_NORMALIZED", 0)

power_resolve_disagreement(prefer_ml, ml_raw, regex_raw, nml, nrx, dtype) ==
    IF dtype = "NONE" THEN resolve_none(ml_raw, regex_raw, nml)
    ELSE IF dtype = "MINOR_FORMATTING"
    THEN resolve_minor(prefer_ml, ml_raw, regex_raw, nml, nrx)
    ELSE power_resolve_major(prefer_ml, ml_raw, regex_raw, nml, nrx)

resolve_power(ml_raw, regex_raw, prefer_ml, manual_override) ==
    IF manual_override /= None
    THEN Resolution(ml_raw, regex_raw, power_normalize(ml_raw),
                    power_normalize(regex_raw), "NONE", manual_override, "MANUAL", 100)
    ELSE LET normalized_ml == power_normalize(ml_raw)
             normalized_regex == power_normalize(regex_raw)
             disagreement_type == classify_disagreement(normalized_ml, normalized_regex)
             resolution == power_resolve_disagreement(prefer_ml, ml_raw, regex_raw,
                               normalized_ml, normalized_regex, disagreement_type)
         IN Resolution(ml_raw, regex_raw, normalized_ml, normalized_regex,
                       disagreement_type, resolution.value, resolution.method,
                       resolution.confidence)

----------------------------------------------------------------------------
(* DataNormalizer: the typed values of the returned record                 *)

IntVal(n) == [t |-> "int", n |-> n]

Without(s, cls) == SelectSeq(s, LAMBDA c : c \notin cls)

\* whether pat occurs in s at position i
At(s, i, pat) == i + Len(pat) - 1 <= Len(s) /\ SubSeq(s, i, i + Len(pat) - 1) = pat

\* int of the first digit run of s, None when s has no digit
FirstNumber(s) ==
    LET a == FirstDigit(s, 1)
    IN IF a = 0 THEN None ELSE IntVal(ToInt(SubSeq(s, a, SpanLen(s, a, Digits))))

normalize_mileage(mileage) ==
    IF ~Truthy(mileage) THEN None
    ELSE IF ~IsStr(mileage) THEN IntVal(ToInt(mileage.s))
    ELSE LET m == Without(mileage.s, {" ", "."})
             v == FirstNumber(m)
             low == Lower(m)
             \* re.search(r'\d+\s*(?:tis|t)\.?\s*km', mileage, re.IGNORECASE)
             tis == \E i \in 1..Len(low) :
                      /\ IsDigit(low[i])
                      /\ \/ At(low, i + 1, <<"t", "i", "s", "k", "m">>)
                         \/ At(low, i + 1, <<"t", "k", "m">>)
         IN IF v = None THEN None ELSE IF tis THEN IntVal(v.n * 1000) ELSE v

normalize_power(power) ==
    IF ~Truthy(power) THEN None
    ELSE IF ~IsStr(power) THEN IntVal(ToInt(power.s))
    ELSE FirstNumber(power.s)

\* re.search(r'(\d{4})', year): the first four consecutive digits
normalize_year(year) ==
    IF ~Truthy(year) THEN None
    ELSE IF ~IsStr(year) THEN IntVal(ToInt(year.s))
    ELSE LET s == year.s
             hits == {i \in 1..Len(s) : SpanLen(s, i, Digits) >= i + 3}
         IN IF hits = {} THEN None
            ELSE LET a == CHOOSE i \in hits : \A j \in hits : i <= j
                 IN IntVal(ToInt(SubSeq(s, a, a + 3)))

diesel == <<"d", "i", "e", "s", "e", "l">>

nafta == <<"n", "a", "f", "t", "a">>

FUEL_DIESEL ==
    {diesel, nafta, <<"t", "d", "i">>, <<"t", "d">>,
     <<"m", "o", "t", "o", "r", "o", "v", "á", " ", "n", "a", "f", "t", "a">>,
     <<"m", "o", "t", "o", "r", "o", "v", "a", " ", "n", "a", "f", "t", "a">>}

benzin == <<"b", "e", "n", "z", "í", "n">>

FUEL_BENZIN ==
    {benzin, <<"b", "e", "n", "z", "i", "n">>, <<"g", "a", "s">>,
     <<"g", "a", "s", "o", "l", "i", "n", "e">>, <<"b">>}

FUEL_LPG == {<<"l", "p", "g">>, <<"p", "l", "y", "n">>}

elektro == <<"e", "l", "e", "k", "t", "r", "o">>

\* the table's fourth word, elektrina written with r-caron, has a letter that
\* a TLA+ string cannot hold; no listing of the model uses it
FUEL_ELECTRIC ==
    {elektro, <<"e", "l", "e", "c", "t", "r", "i", "c">>, <<"e", "v">>}

normalize_fuel(fuel) ==
    IF ~Truthy(fuel) THEN None
    ELSE LET fuel_lower == Strip(Lower(fuel.s))
         IN IF fuel_lower \in FUEL_DIESEL THEN Str(diesel)
            ELSE IF fuel_lower \in FUEL_BENZIN THEN Str(benzin)
            ELSE IF fuel_lower \in FUEL_LPG THEN Str(<<"l", "p", "g">>)
            ELSE IF fuel_lower \in FUEL_ELECTRIC THEN Str(elektro)
            ELSE fuel

----------------------------------------------------------------------------
(* ProductionExtractor                                                      *)

Fields == <<"mileage", "year", "power", "fuel">>

FieldSet == {"mileage", "year", "power", "fuel"}

\* variant of the field comparison: power and mileage agree only when the
\* classification is NONE
field_bucket_exact(field, ml_val, regex_val, power_resolution, mileage_resolution) ==
    IF field = "power"
    THEN IF power_resolution.disagreement_type = "NONE" THEN "agreements"
         ELSE "disagreements"
    ELSE IF field = "mileage"
    THEN IF mileage_resolution.disagreement_type = "NONE" THEN "agreements"
         ELSE "disagreements"
    ELSE IF ml_val /= None /\ regex_val /= None
    THEN IF ml_val = regex_val THEN "agreements" ELSE "disagreements"
    ELSE IF ml_val /= None /\ regex_val = None THEN "ml_only"
    ELSE IF ml_val = None /\ regex_val /= None THEN "regex_only"
    ELSE "both_empty"

\* the list of _compare_results that the field is appended to ("" for none)
field_bucket(field, ml_val, regex_val, power_resolution, mileage_resolution) ==
    IF field = "power"
    THEN IF power_resolution.disagreement_type = "NONE" THEN "agreements"
         ELSE IF power_resolution.disagreement_type = "MINOR_FORMATTING"
         THEN "agreements"
         ELSE "disagreements"
    ELSE IF field = "mileage"
    THEN IF mileage_resolution.disagreement_type = "NONE" THEN "agreements"
         ELSE IF mileage_resolution.disagreement_type = "MINOR_FORMATTING"
         THEN "agreements"
         ELSE "disagreements"
    ELSE IF ml_val /= None /\ regex_val /= None
    THEN IF ml_val = regex_val THEN "agreements" ELSE "disagreements"
    ELSE IF ml_val /= None /\ regex_val = None THEN "ml_only"
    ELSE IF ml_val = None /\ regex_val /= None THEN "regex_only"
    ELSE "both_empty"

\* variant of the level: one agreeing field is already partial
agreement_level_lenient(agreed_fields) ==
    IF agreed_fields = 4 THEN "full"
    ELSE IF agreed_fields >= 1 THEN "partial"
    ELSE "none"

\* _compare_results: the agreement level of a number of agreeing fields
agreement_level(agreed_fields) ==
    IF agreed_fields = 4 THEN "full"
    ELSE IF agreed_fields >= 2 THEN "partial"
    ELSE "none"

compare_results(ml_result, regex_result, power_resolution, mileage_resolution) ==
    LET bucket == [f \in FieldSet |->
                      field_bucket(f, ml_result[f], regex_result[f],
                                   power_resolution, mileage_resolution)]
        agreements == SelectSeq(Fields, LAMBDA f : bucket[f] = "agreements")
    IN [agreements |-> agreements,
        disagreements |-> SelectSeq(Fields, LAMBDA f : bucket[f] = "disagreements"),
        ml_only |-> SelectSeq(Fields, LAMBDA f : bucket[f] = "ml_only"),
        regex_only |-> SelectSeq(Fields, LAMBDA f : bucket[f] = "regex_only"),
        both_empty |-> SelectSeq(Fields, LAMBDA f : bucket[f] = "both_empty"),
        agreement_level |-> agreement_level(Len(agreements)),
        power_disagreement_type |-> power_resolution.disagreement_type,
        mileage_disagreement_type |-> mileage_resolution.disagreement_type]

InList(f, list) == \E i \in 1..Len(list) : list[i] = f

\* _decide_final_result: the raw value chosen for each field
final_values(ml_result, regex_result, comparison, power_resolution, mileage_resolution) ==
    [field \in FieldSet |->
        IF field = "power" THEN power_resolution.resolved_value
        ELSE IF field = "mileage" THEN mileage_resolution.resolved_value
        ELSE IF InList(field, comparison.agreements) THEN ml_result[field]
        ELSE IF InList(field, comparison.disagreements) THEN regex_result[field]
        ELSE IF InList(field, comparison.ml_only) THEN ml_result[field]
        ELSE IF InList(field, comparison.regex_only) THEN regex_result[field]
        ELSE None]

\* variant of the label: a partial agreement is labelled like a full one
confidence_label_flat(comparison, power_resolution, mileage_resolution) ==
    IF comparison.agreement_level = "none" THEN "low" ELSE "high"

\* _decide_final_result: the confidence label
confidence_label(comparison, power_resolution, mileage_resolution) ==
    LET c0 == IF comparison.agreement_level = "full" THEN "high"
              ELSE IF comparison.agreement_level = "partial" THEN "medium"
              ELSE "low"
        c1 == IF power_resolution.disagreement_type = "MAJOR" /\ c0 = "high"
              THEN "medium" ELSE c0
    IN IF mileage_resolution.disagreement_type = "MAJOR" /\ c1 = "high"
       THEN "medium" ELSE c1

normalize_result(result) ==
    [mileage |-> normalize_mileage(result["mileage"]),
     year |-> normalize_year(result["year"]),
     power |-> normalize_power(result["power"]),
     fuel |-> normalize_fuel(result["fuel"])]

\* variant of _update_field_stats: a field is counted as agreeing whatever its
\* list, and as disagreeing too when it is in the disagreements
update_field_stats_twice(field_stats, comparison) ==
    [f \in FieldSet |->
        IF InList(f, comparison.disagreements)
        THEN [field_stats[f] EXCEPT !.agree = @ + 1, !.disagree = @ + 1]
        ELSE [field_stats[f] EXCEPT !.agree = @ + 1]]

\* _update_field_stats
update_field_stats(field_stats, comparison) ==
    [f \in FieldSet |->
        IF InList(f, comparison.agreements)
        THEN [field_stats[f] EXCEPT !.agree = @ + 1]
        ELSE IF InList(f, comparison.disagreements)
        THEN [field_stats[f] EXCEPT !.disagree = @ + 1]
        ELSE field_stats[f]]

\* the entry _add_to_auto_training appends (without its text, spans and time)
auto_training_entry(car_id) ==
    [car_id |-> car_id, confidence |-> "high", source |-> "auto_agreement"]

\* the entry _add_to_review_queue appends: the listing and, of its comparison,
\* the agreeing and the disagreeing fields (without its text, raw results and time)
review_entry(car_id, ml_result, regex_result, comparison) ==
    [car_id |-> car_id, ml_result |-> ml_result, regex_result |-> regex_result,
     comparison |-> comparison]

\* extract(text, car_id); ml_result is what the model returned for the text and
\* regex_result what _extract_with_regex found in it
Extract(car_id, ml_result, regex_result) ==
    \E power_resolution \in
            {resolve_power(ml_result["power"], regex_result["power"], FALSE, None)},
       mileage_resolution \in
            {resolve_mileage(ml_result["mileage"], regex_result["mileage"], TRUE, None)} :
    \E comparison \in {compare_results(ml_result, regex_result,
                                       power_resolution, mileage_resolution)} :
    \E final_result_raw \in {final_values(ml_result, regex_result, comparison,
                                          power_resolution, mileage_resolution)},
       confidence \in
            {confidence_label(comparison, power_resolution, mileage_resolution)},
       level \in {comparison.agreement_level} :
    \E normalized \in {normalize_result(final_result_raw)} :
       /\ auto_training_queue' =
            IF level = "full"
            THEN Append(auto_training_queue, auto_training_entry(car_id))
            ELSE auto_training_queue
       /\ review_queue' =
            IF level = "none"
            THEN Append(review_queue,
                        review_entry(car_id, ml_result, regex_result, comparison))
            ELSE review_queue
       /\ stats' =
            [stats EXCEPT
                !.total_extractions = @ + 1,
                !.full_agreements = @ + (IF level = "full" THEN 1 ELSE 0),
                !.partial_agreements = @ + (IF level = "partial" THEN 1 ELSE 0),
                !.disagreements = @ + (IF level = "none" THEN 1 ELSE 0),
                !.field_stats = update_field_stats(@, comparison)]
       /\ inp' = [t |-> "extract", car_id |-> car_id, ml_result |-> ml_result,
                  regex_result |-> regex_result, comparison |-> comparison]
       /\ resp' = [t |-> "response",
                   mileage |-> normalized.mileage, year |-> normalized.year,
                   power |-> normalized.power, fuel |-> normalized.fuel,
                   confidence |-> confidence,
                   agreement |-> level,
                   flagged_for_review |-> (level = "none"),
                   car_id |-> car_id,
                   raw_values |-> final_result_raw,
                   power_resolution |-> power_resolution,
                   mileage_resolution |-> mileage_resolution]
       /\ UNCHANGED <<call, res, disk, flush, peer, offline, upstream>>

----------------------------------------------------------------------------
(* ContextAwarePatterns (ml/context_aware_patterns.py).  A compiled        *)
(* pattern is the tree re parses it into; re_from matches it the way the   *)
(* backtracking engine does, trying alternatives and repetition counts in  *)
(* re's order.  All patterns but the bare-year one are compiled with       *)
(* IGNORECASE: the literals are lower case and the text is lowered as it   *)
(* is read.  The letters of the Czech alphabet outside Latin-1 are written *)
(* as two-letter characters: "cv", "sv", "rv", "ev", "zv" (with hacek),    *)
(* "uo" (u with ring).                                                     *)

\* \s
Spaces == {" ", "\n", "\t"}

\* \w
WordChars ==
    LowerLetters \cup Digits
        \cup {"_", "á", "é", "í", "ó", "ú", "ý", "cv", "sv", "rv", "ev", "zv", "uo"}

\* [...] and a literal character
ReSet(cs) == [k |-> "set", cs |-> cs]

\* a sequence of items
ReCat(xs) == [k |-> "cat", xs |-> xs]

\* a|b|...
ReAlt(xs) == [k |-> "alt", xs |-> xs]

\* x{lo,hi}, x? (greedy)
Rep(x, lo, hi) == [k |-> "rep", x |-> x, lo |-> lo, hi |-> hi, inf |-> FALSE]

\* x*, x+, x{lo,} (greedy)
RepAtLeast(x, lo) == [k |-> "rep", x |-> x, lo |-> lo, hi |-> 0, inf |-> TRUE]

\* (x) as group n
Grp(n, x) == [k |-> "grp", n |-> n, x |-> x]

\* (?!x)
NotAhead(x) == [k |-> "nla", x |-> x]

\* \b
WordBoundary == [k |-> "wb"]

\* ^ (no MULTILINE)
LineStart == [k |-> "bol"]

\* $ (no MULTILINE): the end of the text, or the line feed that ends it
LineEnd == [k |-> "eol"]

\* literal text
Lit(w) == ReCat([i \in 1..Len(w) |-> ReSet({w[i]})])

IsWordAt(s, i) == i >= 1 /\ i <= Len(s) /\ LowerChar(s[i]) \in WordChars

\* the groups of a match state rs, group n set to the span from..pos
RECURSIVE re_group(_, _, _)
re_group(rs, n, from) ==
    IF rs = <<>> THEN <<>>
    ELSE <<[Head(rs) EXCEPT !.g[n] = <<from, Head(rs).pos>>]>>
             \o re_group(Tail(rs), n, from)

\* every way, in the order the engine tries them, in which x matches s from the
\* match state st (the position reached and the spans of groups 1 and 2)
RECURSIVE re_from(_, _, _), re_each(_, _, _)
re_from(x, s, st) ==
    CASE x.k = "set" ->
            IF st.pos <= Len(s) /\ LowerChar(s[st.pos]) \in x.cs
            THEN <<[st EXCEPT !.pos = @ + 1]>>
            ELSE <<>>
      [] x.k = "cat" ->
            IF x.xs = <<>> THEN <<st>>
            ELSE re_each(re_from(Head(x.xs), s, st), ReCat(Tail(x.xs)), s)
      [] x.k = "alt" ->
            IF x.xs = <<>> THEN <<>>
            ELSE re_from(Head(x.xs), s, st) \o re_from(ReAlt(Tail(x.xs)), s, st)
      [] x.k = "rep" ->
            (IF x.inf \/ x.hi > 0
             THEN re_each(SelectSeq(re_from(x.x, s, st), LAMBDA r : r.pos > st.pos),
                          [x EXCEPT !.lo = IF @ > 0 THEN @ - 1 ELSE 0,
                                    !.hi = IF x.inf THEN 0 ELSE @ - 1], s)
             ELSE <<>>)
                \o (IF x.lo = 0 THEN <<st>> ELSE <<>>)
      [] x.k = "grp" -> re_group(re_from(x.x, s, st), x.n, st.pos)
      [] x.k = "nla" -> IF re_from(x.x, s, st) = <<>> THEN <<st>> ELSE <<>>
      [] x.k = "wb" ->
            IF IsWordAt(s, st.pos - 1) /= IsWordAt(s, st.pos) THEN <<st>> ELSE <<>>
      [] x.k = "bol" -> IF st.pos = 1 THEN <<st>> ELSE <<>>
      [] x.k = "eol" ->
            IF st.pos = Len(s) + 1 \/ (st.pos = Len(s) /\ s[st.pos] = "\n")
            THEN <<st>>
            ELSE <<>>

re_each(rs, x, s) ==
    IF rs = <<>> THEN <<>>
    ELSE re_from(x, s, Head(rs)) \o re_each(Tail(rs), x, s)

\* pattern.finditer(s): the matches from left to right, none overlapping; each
\* with its span and the spans of its groups (positions count from 1, a span
\* from..to holds the characters from..to-1)
RECURSIVE finditer_from(_, _, _), finditer_next(_, _, _, _)
finditer_from(pattern, s, i) ==
    IF i > Len(s) + 1 THEN <<>>
    ELSE finditer_next(pattern, s, i,
                       re_from(pattern, s, [pos |-> i, g |-> <<<<0, 0>>, <<0, 0>>>>]))

finditer_next(pattern, s, i, rs) ==
    IF rs = <<>> THEN finditer_from(pattern, s, i + 1)
    ELSE <<[span |-> <<i, Head(rs).pos>>, g |-> Head(rs).g]>>
            \o finditer_from(pattern, s, IF Head(rs).pos > i THEN Head(rs).pos ELSE i + 1)

finditer(pattern, s) == finditer_from(pattern, s, 1)

\* for pattern in patterns: for match in pattern.finditer(s): the matches in
\* the order the two loops meet them
RECURSIVE finditer_all(_, _)
finditer_all(patterns, s) ==
    IF patterns = <<>> THEN <<>>
    ELSE finditer(Head(patterns), s) \o finditer_all(Tail(patterns), s)

\* s[from:to] of a span
Slice(s, span) == SubSeq(s, span[1], span[2] - 1)

YEAR_HIGH_CONFIDENCE ==
    <<
     \* (?:rok\s+výroby|r\.?\s?v\.?|výroba|vyrobeno)\s*[:.]?\s*(\d{4})
     ReCat(<<ReAlt(<<ReCat(<<Lit(<<"r", "o", "k">>), RepAtLeast(ReSet(Spaces), 1),
        Lit(<<"v", "ý", "r", "o", "b", "y">>)>>), ReCat(<<Lit(<<"r">>),
        Rep(Lit(<<".">>), 0, 1), Rep(ReSet(Spaces), 0, 1), Lit(<<"v">>),
        Rep(Lit(<<".">>), 0, 1)>>), Lit(<<"v", "ý", "r", "o", "b", "a">>), Lit(<<"v",
        "y", "r", "o", "b", "e", "n", "o">>)>>), RepAtLeast(ReSet(Spaces), 0),
        Rep(ReSet({":", "."}), 0, 1), RepAtLeast(ReSet(Spaces), 0), Grp(1,
        Rep(ReSet(Digits), 4, 4))>>),
     \* (\d{4})\s*(?:rok\s+výroby|r\.?\s?v\.?)
     ReCat(<<Grp(1, Rep(ReSet(Digits), 4, 4)), RepAtLeast(ReSet(Spaces), 0),
        Lit(<<"r">>), ReAlt(<<ReCat(<<Lit(<<"o", "k">>), RepAtLeast(ReSet(Spaces), 1),
        Lit(<<"v", "ý", "r", "o", "b", "y">>)>>), ReCat(<<Rep(Lit(<<".">>), 0, 1),
        Rep(ReSet(Spaces), 0, 1), Lit(<<"v">>), Rep(Lit(<<".">>), 0, 1)>>)>>)>>),
     \* rcv\.?\s*(\d{4})
     ReCat(<<Lit(<<"r", "cv">>), Rep(Lit(<<".">>), 0, 1), RepAtLeast(ReSet(Spaces),
        0), Grp(1, Rep(ReSet(Digits), 4, 4))>>)
    >>

YEAR_MEDIUM_CONFIDENCE ==
    <<
     \* (?:^|\s)(\d{4})\s*(?:km|kw|tdi|tsi)
     ReCat(<<ReAlt(<<LineStart, ReSet(Spaces)>>), Grp(1, Rep(ReSet(Digits), 4, 4)),
        RepAtLeast(ReSet(Spaces), 0), ReAlt(<<Lit(<<"k", "m">>), Lit(<<"k", "w">>),
        Lit(<<"t", "d", "i">>), Lit(<<"t", "s", "i">>)>>)>>),
     \* (?:svkoda|vw|audi|bmw|toyota|ford|mazda)\s+\w+\s+(\d{4})
     ReCat(<<ReAlt(<<Lit(<<"sv", "k", "o", "d", "a">>), Lit(<<"v", "w">>),
        Lit(<<"a", "u", "d", "i">>), Lit(<<"b", "m", "w">>), Lit(<<"t", "o", "y", "o",
        "t", "a">>), Lit(<<"f", "o", "r", "d">>), Lit(<<"m", "a", "z", "d", "a">>)>>),
        RepAtLeast(ReSet(Spaces), 1), RepAtLeast(ReSet(WordChars), 1),
        RepAtLeast(ReSet(Spaces), 1), Grp(1, Rep(ReSet(Digits), 4, 4))>>)
    >>

YEAR_EXCLUDE ==
    <<
     \* (?:stk|technická|emise|emisní)\s+(?:do|platnost|konec)?\s*(\d{4})
     ReCat(<<ReAlt(<<Lit(<<"s", "t", "k">>), Lit(<<"t", "e", "c", "h", "n", "i",
        "c", "k", "á">>), Lit(<<"e", "m", "i", "s", "e">>), Lit(<<"e", "m", "i", "s",
        "n", "í">>)>>), RepAtLeast(ReSet(Spaces), 1), Rep(ReAlt(<<Lit(<<"d", "o">>),
        Lit(<<"p", "l", "a", "t", "n", "o", "s", "t">>), Lit(<<"k", "o", "n", "e",
        "c">>)>>), 0, 1), RepAtLeast(ReSet(Spaces), 0), Grp(1, Rep(ReSet(Digits), 4,
        4))>>),
     \* (?:servis|serviska|oprava|výmevna|vymevnevn)\s+(\d{4})
     ReCat(<<ReAlt(<<Lit(<<"s", "e", "r", "v", "i", "s">>), Lit(<<"s", "e", "r",
        "v", "i", "s", "k", "a">>), Lit(<<"o", "p", "r", "a", "v", "a">>), Lit(<<"v",
        "ý", "m", "ev", "n", "a">>), Lit(<<"v", "y", "m", "ev", "n", "ev", "n">>)>>),
        RepAtLeast(ReSet(Spaces), 1), Grp(1, Rep(ReSet(Digits), 4, 4))>>),
     \* (?:pneumatiky|pneu|kola|brzdy|motor|prvevodovka)\s+(?:z|z\s+roku)?\s*(\d{4})
     ReCat(<<ReAlt(<<Lit(<<"p", "n", "e", "u", "m", "a", "t", "i", "k", "y">>),
        Lit(<<"p", "n", "e", "u">>), Lit(<<"k", "o", "l", "a">>), Lit(<<"b", "r", "z",
        "d", "y">>), Lit(<<"m", "o", "t", "o", "r">>), Lit(<<"p", "rv", "e", "v", "o",
        "d", "o", "v", "k", "a">>)>>), RepAtLeast(ReSet(Spaces), 1),
        Rep(ReCat(<<Lit(<<"z">>), ReAlt(<<ReCat(<<>>),
        ReCat(<<RepAtLeast(ReSet(Spaces), 1), Lit(<<"r", "o", "k", "u">>)>>)>>)>>), 0,
        1), RepAtLeast(ReSet(Spaces), 0), Grp(1, Rep(ReSet(Digits), 4, 4))>>),
     \* nové?\s+(?:od|z)\s+(\d{4})
     ReCat(<<Lit(<<"n", "o", "v">>), Rep(Lit(<<"é">>), 0, 1),
        RepAtLeast(ReSet(Spaces), 1), ReAlt(<<Lit(<<"o", "d">>), Lit(<<"z">>)>>),
        RepAtLeast(ReSet(Spaces), 1), Grp(1, Rep(ReSet(Digits), 4, 4))>>),
     \* (?:rozvody|rozvodový|rvemen|rvemeny|brzdy|brzdové|desticvky|kotoucve|olej|filtr|filtry)\s+(?:devlané?|devlaný|vymevnevné?|vymevnevn[yoa]?|prvi|z|ze)\s*(\d{4})
     ReCat(<<ReAlt(<<Lit(<<"r", "o", "z", "v", "o", "d", "y">>), Lit(<<"r", "o",
        "z", "v", "o", "d", "o", "v", "ý">>), Lit(<<"rv", "e", "m", "e", "n">>),
        Lit(<<"rv", "e", "m", "e", "n", "y">>), Lit(<<"b", "r", "z", "d", "y">>),
        Lit(<<"b", "r", "z", "d", "o", "v", "é">>), Lit(<<"d", "e", "s", "t", "i",
        "cv", "k", "y">>), Lit(<<"k", "o", "t", "o", "u", "cv", "e">>), Lit(<<"o", "l",
        "e", "j">>), Lit(<<"f", "i", "l", "t", "r">>), Lit(<<"f", "i", "l", "t", "r",
        "y">>)>>), RepAtLeast(ReSet(Spaces), 1), ReAlt(<<ReCat(<<Lit(<<"d", "ev", "l",
        "a", "n">>), Rep(Lit(<<"é">>), 0, 1)>>), Lit(<<"d", "ev", "l", "a", "n",
        "ý">>), ReCat(<<Lit(<<"v", "y", "m", "ev", "n", "ev", "n">>), Rep(Lit(<<"é">>),
        0, 1)>>), ReCat(<<Lit(<<"v", "y", "m", "ev", "n", "ev", "n">>), Rep(ReSet({"y",
        "o", "a"}), 0, 1)>>), Lit(<<"p", "rv", "i">>), Lit(<<"z">>), Lit(<<"z",
        "e">>)>>), RepAtLeast(ReSet(Spaces), 0), Grp(1, Rep(ReSet(Digits), 4, 4))>>),
     \* (?:devlané?|vymevnevné?|vymevnevn[yoa]?|oprava|opraveno)\s+(?:prvi|v|ve|z)?\s*(\d{4})
     ReCat(<<ReAlt(<<ReCat(<<Lit(<<"d", "ev", "l", "a", "n">>), Rep(Lit(<<"é">>), 0,
        1)>>), ReCat(<<Lit(<<"v", "y", "m", "ev", "n", "ev", "n">>), Rep(Lit(<<"é">>),
        0, 1)>>), ReCat(<<Lit(<<"v", "y", "m", "ev", "n", "ev", "n">>), Rep(ReSet({"y",
        "o", "a"}), 0, 1)>>), Lit(<<"o", "p", "r", "a", "v", "a">>), Lit(<<"o", "p",
        "r", "a", "v", "e", "n", "o">>)>>), RepAtLeast(ReSet(Spaces), 1),
        Rep(ReAlt(<<Lit(<<"p", "rv", "i">>), Lit(<<"v">>), Lit(<<"v", "e">>),
        Lit(<<"z">>)>>), 0, 1), RepAtLeast(ReSet(Spaces), 0), Grp(1, Rep(ReSet(Digits),
        4, 4))>>)
    >>

YEAR_LOW_CONFIDENCE ==
    <<
     \* \b(19\d{2}|20[0-2]\d)\b
     ReCat(<<WordBoundary, Grp(1, ReAlt(<<ReCat(<<Lit(<<"1", "9">>),
        Rep(ReSet(Digits), 2, 2)>>), ReCat(<<Lit(<<"2", "0">>), ReSet({"0", "1", "2"}),
        ReSet(Digits)>>)>>)), WordBoundary>>)
    >>

MILEAGE_HIGH_CONFIDENCE ==
    <<
     \* (?:najeto|nájezd|km\s+celkem|pocvet\s+km)\s*[:.]?\s*((\d{1,3}(?:[\s._]?\d{3})+)\s?km)
     ReCat(<<ReAlt(<<Lit(<<"n", "a", "j", "e", "t", "o">>), Lit(<<"n", "á", "j",
        "e", "z", "d">>), ReCat(<<Lit(<<"k", "m">>), RepAtLeast(ReSet(Spaces), 1),
        Lit(<<"c", "e", "l", "k", "e", "m">>)>>), ReCat(<<Lit(<<"p", "o", "cv", "e",
        "t">>), RepAtLeast(ReSet(Spaces), 1), Lit(<<"k", "m">>)>>)>>),
        RepAtLeast(ReSet(Spaces), 0), Rep(ReSet({":", "."}), 0, 1),
        RepAtLeast(ReSet(Spaces), 0), Grp(1, ReCat(<<Grp(2, ReCat(<<Rep(ReSet(Digits),
        1, 3), RepAtLeast(ReCat(<<Rep(ReSet(Spaces \cup {".", "_"}), 0, 1),
        Rep(ReSet(Digits), 3, 3)>>), 1)>>)), Rep(ReSet(Spaces), 0, 1), Lit(<<"k",
        "m">>)>>))>>),
     \* ((\d{1,3}(?:[\s._]?\d{3})+)\s?km)\s+(?:najeto|celkem)
     ReCat(<<Grp(1, ReCat(<<Grp(2, ReCat(<<Rep(ReSet(Digits), 1, 3),
        RepAtLeast(ReCat(<<Rep(ReSet(Spaces \cup {".", "_"}), 0, 1), Rep(ReSet(Digits),
        3, 3)>>), 1)>>)), Rep(ReSet(Spaces), 0, 1), Lit(<<"k", "m">>)>>)),
        RepAtLeast(ReSet(Spaces), 1), ReAlt(<<Lit(<<"n", "a", "j", "e", "t", "o">>),
        Lit(<<"c", "e", "l", "k", "e", "m">>)>>)>>),
     \* (?:najeto|nájezd)\s*[:.]?\s*((\d{1,3}[\s._]\d{3}(?:[\s._]\d{3})?)(?!\s?km))
     ReCat(<<Lit(<<"n">>), ReAlt(<<Lit(<<"a", "j", "e", "t", "o">>), Lit(<<"á", "j",
        "e", "z", "d">>)>>), RepAtLeast(ReSet(Spaces), 0), Rep(ReSet({":", "."}), 0,
        1), RepAtLeast(ReSet(Spaces), 0), Grp(1, ReCat(<<Grp(2,
        ReCat(<<Rep(ReSet(Digits), 1, 3), ReSet(Spaces \cup {".", "_"}),
        Rep(ReSet(Digits), 3, 3), Rep(ReCat(<<ReSet(Spaces \cup {".", "_"}),
        Rep(ReSet(Digits), 3, 3)>>), 0, 1)>>)), NotAhead(ReCat(<<Rep(ReSet(Spaces), 0,
        1), Lit(<<"k", "m">>)>>))>>))>>),
     \* (?:najeto|nájezd)\s*[:.]?\s*((\d{1,3}(?:[.,]\d+)?)\s?(?:tis|tisíc)\.?\s?(?:km)?)
     ReCat(<<Lit(<<"n">>), ReAlt(<<Lit(<<"a", "j", "e", "t", "o">>), Lit(<<"á", "j",
        "e", "z", "d">>)>>), RepAtLeast(ReSet(Spaces), 0), Rep(ReSet({":", "."}), 0,
        1), RepAtLeast(ReSet(Spaces), 0), Grp(1, ReCat(<<Grp(2,
        ReCat(<<Rep(ReSet(Digits), 1, 3), Rep(ReCat(<<ReSet({".", ","}),
        RepAtLeast(ReSet(Digits), 1)>>), 0, 1)>>)), Rep(ReSet(Spaces), 0, 1),
        Lit(<<"t", "i", "s">>), ReAlt(<<ReCat(<<>>), Lit(<<"í", "c">>)>>),
        Rep(Lit(<<".">>), 0, 1), Rep(ReSet(Spaces), 0, 1), Rep(Lit(<<"k", "m">>), 0,
        1)>>))>>),
     \* (?:najeto|nájezd)\s*[:.]?\s*((\d{1,3}(?:[.,]\d+)?)\s?k(?:\s?km)?)
     ReCat(<<Lit(<<"n">>), ReAlt(<<Lit(<<"a", "j", "e", "t", "o">>), Lit(<<"á", "j",
        "e", "z", "d">>)>>), RepAtLeast(ReSet(Spaces), 0), Rep(ReSet({":", "."}), 0,
        1), RepAtLeast(ReSet(Spaces), 0), Grp(1, ReCat(<<Grp(2,
        ReCat(<<Rep(ReSet(Digits), 1, 3), Rep(ReCat(<<ReSet({".", ","}),
        RepAtLeast(ReSet(Digits), 1)>>), 0, 1)>>)), Rep(ReSet(Spaces), 0, 1),
        Lit(<<"k">>), Rep(ReCat(<<Rep(ReSet(Spaces), 0, 1), Lit(<<"k", "m">>)>>), 0,
        1)>>))>>),
     \* (?:najeto|nájezd)\s*[:.]?\s*((\d{1,3}(?:[.,]\d+)?)\s?t\.?(?:\s?km)?)
     ReCat(<<Lit(<<"n">>), ReAlt(<<Lit(<<"a", "j", "e", "t", "o">>), Lit(<<"á", "j",
        "e", "z", "d">>)>>), RepAtLeast(ReSet(Spaces), 0), Rep(ReSet({":", "."}), 0,
        1), RepAtLeast(ReSet(Spaces), 0), Grp(1, ReCat(<<Grp(2,
        ReCat(<<Rep(ReSet(Digits), 1, 3), Rep(ReCat(<<ReSet({".", ","}),
        RepAtLeast(ReSet(Digits), 1)>>), 0, 1)>>)), Rep(ReSet(Spaces), 0, 1),
        Lit(<<"t">>), Rep(Lit(<<".">>), 0, 1), Rep(ReCat(<<Rep(ReSet(Spaces), 0, 1),
        Lit(<<"k", "m">>)>>), 0, 1)>>))>>),
     \* (?:najeto|nájezd)\s*[:.]?\s*((\d{1,3})\s?xxx(?:\s?km)?)
     ReCat(<<Lit(<<"n">>), ReAlt(<<Lit(<<"a", "j", "e", "t", "o">>), Lit(<<"á", "j",
        "e", "z", "d">>)>>), RepAtLeast(ReSet(Spaces), 0), Rep(ReSet({":", "."}), 0,
        1), RepAtLeast(ReSet(Spaces), 0), Grp(1, ReCat(<<Grp(2, Rep(ReSet(Digits), 1,
        3)), Rep(ReSet(Spaces), 0, 1), Lit(<<"x", "x", "x">>),
        Rep(ReCat(<<Rep(ReSet(Spaces), 0, 1), Lit(<<"k", "m">>)>>), 0, 1)>>))>>),
     \* (?:najeto|nájezd)\s*[:.]?\s*((\d{1,3})\s?\*{3}(?:\s?km)?)
     ReCat(<<Lit(<<"n">>), ReAlt(<<Lit(<<"a", "j", "e", "t", "o">>), Lit(<<"á", "j",
        "e", "z", "d">>)>>), RepAtLeast(ReSet(Spaces), 0), Rep(ReSet({":", "."}), 0,
        1), RepAtLeast(ReSet(Spaces), 0), Grp(1, ReCat(<<Grp(2, Rep(ReSet(Digits), 1,
        3)), Rep(ReSet(Spaces), 0, 1), Rep(Lit(<<"*">>), 3, 3),
        Rep(ReCat(<<Rep(ReSet(Spaces), 0, 1), Lit(<<"k", "m">>)>>), 0, 1)>>))>>),
     \* (?:najeto|nájezd)\s*[:.]?\s*((\d{5,6})(?:\s?km)?)
     ReCat(<<Lit(<<"n">>), ReAlt(<<Lit(<<"a", "j", "e", "t", "o">>), Lit(<<"á", "j",
        "e", "z", "d">>)>>), RepAtLeast(ReSet(Spaces), 0), Rep(ReSet({":", "."}), 0,
        1), RepAtLeast(ReSet(Spaces), 0), Grp(1, ReCat(<<Grp(2, Rep(ReSet(Digits), 5,
        6)), Rep(ReCat(<<Rep(ReSet(Spaces), 0, 1), Lit(<<"k", "m">>)>>), 0, 1)>>))>>)
    >>

MILEAGE_MEDIUM_CONFIDENCE ==
    <<
     \* \b((\d{1,3}(?:[\s._]\d{3})+)\s?km)\b
     ReCat(<<WordBoundary, Grp(1, ReCat(<<Grp(2, ReCat(<<Rep(ReSet(Digits), 1, 3),
        RepAtLeast(ReCat(<<ReSet(Spaces \cup {".", "_"}), Rep(ReSet(Digits), 3, 3)>>),
        1)>>)), Rep(ReSet(Spaces), 0, 1), Lit(<<"k", "m">>)>>)), WordBoundary>>),
     \* \b((\d{5,6})\s?km)\b
     ReCat(<<WordBoundary, Grp(1, ReCat(<<Grp(2, Rep(ReSet(Digits), 5, 6)),
        Rep(ReSet(Spaces), 0, 1), Lit(<<"k", "m">>)>>)), WordBoundary>>),
     \* \b((\d{1,3}(?:[.,]\d+)?)\s?(?:tis|tisíc)\.?\s?km)
     ReCat(<<WordBoundary, Grp(1, ReCat(<<Grp(2, ReCat(<<Rep(ReSet(Digits), 1, 3),
        Rep(ReCat(<<ReSet({".", ","}), RepAtLeast(ReSet(Digits), 1)>>), 0, 1)>>)),
        Rep(ReSet(Spaces), 0, 1), Lit(<<"t", "i", "s">>), ReAlt(<<ReCat(<<>>),
        Lit(<<"í", "c">>)>>), Rep(Lit(<<".">>), 0, 1), Rep(ReSet(Spaces), 0, 1),
        Lit(<<"k", "m">>)>>))>>),
     \* \b((\d{1,3}(?:[.,]\d+)?)\s?k\s?km)
     ReCat(<<WordBoundary, Grp(1, ReCat(<<Grp(2, ReCat(<<Rep(ReSet(Digits), 1, 3),
        Rep(ReCat(<<ReSet({".", ","}), RepAtLeast(ReSet(Digits), 1)>>), 0, 1)>>)),
        Rep(ReSet(Spaces), 0, 1), Lit(<<"k">>), Rep(ReSet(Spaces), 0, 1), Lit(<<"k",
        "m">>)>>))>>),
     \* \b((\d{1,3}(?:[.,]\d+)?)\s?t(?!d|s|i|e)\s?km)
     ReCat(<<WordBoundary, Grp(1, ReCat(<<Grp(2, ReCat(<<Rep(ReSet(Digits), 1, 3),
        Rep(ReCat(<<ReSet({".", ","}), RepAtLeast(ReSet(Digits), 1)>>), 0, 1)>>)),
        Rep(ReSet(Spaces), 0, 1), Lit(<<"t">>), NotAhead(ReSet({"d", "s", "i", "e"})),
        Rep(ReSet(Spaces), 0, 1), Lit(<<"k", "m">>)>>))>>),
     \* \b((\d{1,3})\s?xxx\s?km)
     ReCat(<<WordBoundary, Grp(1, ReCat(<<Grp(2, Rep(ReSet(Digits), 1, 3)),
        Rep(ReSet(Spaces), 0, 1), Lit(<<"x", "x", "x">>), Rep(ReSet(Spaces), 0, 1),
        Lit(<<"k", "m">>)>>))>>),
     \* \b((\d{1,3})\s?\*{3}\s?km)
     ReCat(<<WordBoundary, Grp(1, ReCat(<<Grp(2, Rep(ReSet(Digits), 1, 3)),
        Rep(ReSet(Spaces), 0, 1), Rep(Lit(<<"*">>), 3, 3), Rep(ReSet(Spaces), 0, 1),
        Lit(<<"k", "m">>)>>))>>),
     \* \b((\d{1,3}(?:[.,]\d+)?)\s?(?:tis|tisíc)\.?)(?!\w)
     ReCat(<<WordBoundary, Grp(1, ReCat(<<Grp(2, ReCat(<<Rep(ReSet(Digits), 1, 3),
        Rep(ReCat(<<ReSet({".", ","}), RepAtLeast(ReSet(Digits), 1)>>), 0, 1)>>)),
        Rep(ReSet(Spaces), 0, 1), Lit(<<"t", "i", "s">>), ReAlt(<<ReCat(<<>>),
        Lit(<<"í", "c">>)>>), Rep(Lit(<<".">>), 0, 1)>>)), NotAhead(ReSet(WordChars))>>),
     \* \b((\d{1,3}(?:[.,]\d+)?)k)(?!w|m|\w)
     ReCat(<<WordBoundary, Grp(1, ReCat(<<Grp(2, ReCat(<<Rep(ReSet(Digits), 1, 3),
        Rep(ReCat(<<ReSet({".", ","}), RepAtLeast(ReSet(Digits), 1)>>), 0, 1)>>)),
        Lit(<<"k">>)>>)), NotAhead(ReSet(WordChars \cup {"w", "m"}))>>),
     \* \b((\d{1,3}(?:[.,]\d+)?)\s?t)(?!d|s|i|e|a|\w)
     ReCat(<<WordBoundary, Grp(1, ReCat(<<Grp(2, ReCat(<<Rep(ReSet(Digits), 1, 3),
        Rep(ReCat(<<ReSet({".", ","}), RepAtLeast(ReSet(Digits), 1)>>), 0, 1)>>)),
        Rep(ReSet(Spaces), 0, 1), Lit(<<"t">>)>>)), NotAhead(ReSet(WordChars \cup {"d",
        "s", "i", "e", "a"}))>>),
     \* \b((\d{1,3})\s?xxx)(?!\w)
     ReCat(<<WordBoundary, Grp(1, ReCat(<<Grp(2, Rep(ReSet(Digits), 1, 3)),
        Rep(ReSet(Spaces), 0, 1), Lit(<<"x", "x", "x">>)>>)),
        NotAhead(ReSet(WordChars))>>),
     \* \b((\d{1,3})\s?\*{3})(?!\w)
     ReCat(<<WordBoundary, Grp(1, ReCat(<<Grp(2, Rep(ReSet(Digits), 1, 3)),
        Rep(ReSet(Spaces), 0, 1), Rep(Lit(<<"*">>), 3, 3)>>)),
        NotAhead(ReSet(WordChars))>>),
     \* \b((\d{1,3}[\s._]\d{3}(?:[\s._]\d{3})?))(?!\s?k[mw]|\w)
     ReCat(<<WordBoundary, Grp(1, Grp(2, ReCat(<<Rep(ReSet(Digits), 1, 3),
        ReSet(Spaces \cup {".", "_"}), Rep(ReSet(Digits), 3, 3),
        Rep(ReCat(<<ReSet(Spaces \cup {".", "_"}), Rep(ReSet(Digits), 3, 3)>>), 0,
        1)>>))), NotAhead(ReAlt(<<ReCat(<<Rep(ReSet(Spaces), 0, 1), Lit(<<"k">>),
        ReSet({"m", "w"})>>), ReSet(WordChars)>>))>>),
     \* \b((\d{5,6}))(?!\s?k[mw]|\d)
     ReCat(<<WordBoundary, Grp(1, Grp(2, Rep(ReSet(Digits), 5, 6))),
        NotAhead(ReAlt(<<ReCat(<<Rep(ReSet(Spaces), 0, 1), Lit(<<"k">>), ReSet({"m",
        "w"})>>), ReSet(Digits)>>))>>)
    >>

MILEAGE_EXCLUDE ==
    <<
     \* (?:dojezd|dosah|range)\s+(\d+)\s?km
     ReCat(<<ReAlt(<<Lit(<<"d", "o", "j", "e", "z", "d">>), Lit(<<"d", "o", "s",
        "a", "h">>), Lit(<<"r", "a", "n", "g", "e">>)>>), RepAtLeast(ReSet(Spaces), 1),
        Grp(1, RepAtLeast(ReSet(Digits), 1)), Rep(ReSet(Spaces), 0, 1), Lit(<<"k",
        "m">>)>>),
     \* (\d+)\s?km\s+(?:dennev|mevsícvnev|rocvnev)
     ReCat(<<Grp(1, RepAtLeast(ReSet(Digits), 1)), Rep(ReSet(Spaces), 0, 1),
        Lit(<<"k", "m">>), RepAtLeast(ReSet(Spaces), 1), ReAlt(<<Lit(<<"d", "e", "n",
        "n", "ev">>), Lit(<<"m", "ev", "s", "í", "cv", "n", "ev">>), Lit(<<"r", "o",
        "cv", "n", "ev">>)>>)>>),
     \* (?:servis|serviska|poslední\s+servis|oprava|výmevna|vymevnevn|devlané?)\s+(?:prvi|v|ve|na)?\s*[:.]?\s*(\d{1,3}(?:[\s.]?\d{3})*)\s?km
     ReCat(<<ReAlt(<<Lit(<<"s", "e", "r", "v", "i", "s">>), Lit(<<"s", "e", "r",
        "v", "i", "s", "k", "a">>), ReCat(<<Lit(<<"p", "o", "s", "l", "e", "d", "n",
        "í">>), RepAtLeast(ReSet(Spaces), 1), Lit(<<"s", "e", "r", "v", "i", "s">>)>>),
        Lit(<<"o", "p", "r", "a", "v", "a">>), Lit(<<"v", "ý", "m", "ev", "n", "a">>),
        Lit(<<"v", "y", "m", "ev", "n", "ev", "n">>), ReCat(<<Lit(<<"d", "ev", "l",
        "a", "n">>), Rep(Lit(<<"é">>), 0, 1)>>)>>), RepAtLeast(ReSet(Spaces), 1),
        Rep(ReAlt(<<Lit(<<"p", "rv", "i">>), Lit(<<"v">>), Lit(<<"v", "e">>),
        Lit(<<"n", "a">>)>>), 0, 1), RepAtLeast(ReSet(Spaces), 0), Rep(ReSet({":",
        "."}), 0, 1), RepAtLeast(ReSet(Spaces), 0), Grp(1, ReCat(<<Rep(ReSet(Digits),
        1, 3), RepAtLeast(ReCat(<<Rep(ReSet(Spaces \cup {"."}), 0, 1),
        Rep(ReSet(Digits), 3, 3)>>), 0)>>)), Rep(ReSet(Spaces), 0, 1), Lit(<<"k",
        "m">>)>>),
     \* (?:rozvody|rozvodový|rvemen|brzdy|olej|filtr|filtry)\s+(?:prvi|devlané?|vymevnevné?)\s+(\d{1,3}(?:[\s.]?\d{3})*)\s?km
     ReCat(<<ReAlt(<<Lit(<<"r", "o", "z", "v", "o", "d", "y">>), Lit(<<"r", "o",
        "z", "v", "o", "d", "o", "v", "ý">>), Lit(<<"rv", "e", "m", "e", "n">>),
        Lit(<<"b", "r", "z", "d", "y">>), Lit(<<"o", "l", "e", "j">>), Lit(<<"f", "i",
        "l", "t", "r">>), Lit(<<"f", "i", "l", "t", "r", "y">>)>>),
        RepAtLeast(ReSet(Spaces), 1), ReAlt(<<Lit(<<"p", "rv", "i">>),
        ReCat(<<Lit(<<"d", "ev", "l", "a", "n">>), Rep(Lit(<<"é">>), 0, 1)>>),
        ReCat(<<Lit(<<"v", "y", "m", "ev", "n", "ev", "n">>), Rep(Lit(<<"é">>), 0,
        1)>>)>>), RepAtLeast(ReSet(Spaces), 1), Grp(1, ReCat(<<Rep(ReSet(Digits), 1,
        3), RepAtLeast(ReCat(<<Rep(ReSet(Spaces \cup {"."}), 0, 1), Rep(ReSet(Digits),
        3, 3)>>), 0)>>)), Rep(ReSet(Spaces), 0, 1), Lit(<<"k", "m">>)>>)
    >>

POWER_HIGH_CONFIDENCE ==
    <<
     \* (?:výkon|power|motor)\s*[:.]?\s*((\d{1,3})\s?kw)
     ReCat(<<ReAlt(<<Lit(<<"v", "ý", "k", "o", "n">>), Lit(<<"p", "o", "w", "e",
        "r">>), Lit(<<"m", "o", "t", "o", "r">>)>>), RepAtLeast(ReSet(Spaces), 0),
        Rep(ReSet({":", "."}), 0, 1), RepAtLeast(ReSet(Spaces), 0), Grp(1,
        ReCat(<<Grp(2, Rep(ReSet(Digits), 1, 3)), Rep(ReSet(Spaces), 0, 1), Lit(<<"k",
        "w">>)>>))>>),
     \* ((\d{1,3})\s?kw)\s+(?:výkon|motor)
     ReCat(<<Grp(1, ReCat(<<Grp(2, Rep(ReSet(Digits), 1, 3)), Rep(ReSet(Spaces), 0,
        1), Lit(<<"k", "w">>)>>)), RepAtLeast(ReSet(Spaces), 1), ReAlt(<<Lit(<<"v",
        "ý", "k", "o", "n">>), Lit(<<"m", "o", "t", "o", "r">>)>>)>>)
    >>

POWER_MEDIUM_CONFIDENCE ==
    <<
     \* \b((\d{1,3})\s?kw)\b
     ReCat(<<WordBoundary, Grp(1, ReCat(<<Grp(2, Rep(ReSet(Digits), 1, 3)),
        Rep(ReSet(Spaces), 0, 1), Lit(<<"k", "w">>)>>)), WordBoundary>>)
    >>

\* The finders: the candidates each tier accepts, the fallback chain, the
\* candidates kept

\* a candidate (the dataclass Match); start and end are offsets into the text,
\* counted from 0 as in Python
Match(text, value, start, end, confidence, pattern_type) ==
    [text |-> text, value |-> value, start |-> start, end |-> end,
     confidence |-> confidence, pattern_type |-> pattern_type]

\* max(position_matches, key=...): the first of the candidates starting at
\* position whose confidence is the highest there
best_at(matches, position) ==
    LET confidence_order == [high |-> 3, medium |-> 2, low |-> 1]
        position_matches == SelectSeq(matches, LAMBDA m : m.start = position)
        top == CHOOSE c \in {confidence_order[position_matches[i].confidence] :
                                i \in 1..Len(position_matches)} :
                  \A i \in 1..Len(position_matches) :
                      confidence_order[position_matches[i].confidence] <= c
    IN Head(SelectSeq(position_matches,
                      LAMBDA m : confidence_order[m.confidence] = top))

\* the best candidate of each of the positions, by ascending position
RECURSIVE sorted_best(_, _)
sorted_best(matches, positions) ==
    IF positions = {} THEN <<>>
    ELSE LET first == CHOOSE p \in positions : \A q \in positions : p <= q
         IN <<best_at(matches, first)>> \o sorted_best(matches, positions \ {first})

\* _deduplicate_matches
deduplicate_matches(matches) ==
    sorted_best(matches, {matches[i].start : i \in 1..Len(matches)})

\* the years YEAR_EXCLUDE captures in the text
excluded_years(text) ==
    LET ms == finditer_all(YEAR_EXCLUDE, text)
    IN {Slice(text, ms[i].g[1]) : i \in 1..Len(ms)}

\* variant of a year tier: the years captured by an exclusion pattern are kept
RECURSIVE year_tier_unfiltered(_, _, _, _, _, _)
year_tier_unfiltered(ms, text, excluded, n, confidence, pattern_type) ==
    IF ms = <<>> THEN <<>>
    ELSE LET span == IF n = 0 THEN Head(ms).span ELSE Head(ms).g[n]
             year_str == Slice(text, span)
         IN (IF 1990 <= ToInt(year_str) /\ ToInt(year_str) <= 2026
             THEN <<Match(year_str, ToInt(year_str), span[1] - 1, span[2] - 1,
                          confidence, pattern_type)>>
             ELSE <<>>)
                \o year_tier_unfiltered(Tail(ms), text, excluded, n, confidence,
                                        pattern_type)

\* one tier of find_years: of the matches ms, read from group n (0: the whole
\* match), those whose year is not excluded and lies in 1990..2026
RECURSIVE year_tier(_, _, _, _, _, _)
year_tier(ms, text, excluded, n, confidence, pattern_type) ==
    IF ms = <<>> THEN <<>>
    ELSE LET span == IF n = 0 THEN Head(ms).span ELSE Head(ms).g[n]
             year_str == Slice(text, span)
         IN (IF year_str \notin excluded
                  /\ 1990 <= ToInt(year_str) /\ ToInt(year_str) <= 2026
             THEN <<Match(year_str, ToInt(year_str), span[1] - 1, span[2] - 1,
                          confidence, pattern_type)>>
             ELSE <<>>)
                \o year_tier(Tail(ms), text, excluded, n, confidence, pattern_type)

\* variant of the chain: the tiers are united
fallback_union(tiers) == tiers.high \o tiers.medium \o tiers.low

\* `if not matches:` before the MEDIUM and the LOW loop: matches holds what the
\* first tier that accepted a candidate accepted
fallback(tiers) ==
    IF tiers.high /= <<>> THEN tiers.high
    ELSE IF tiers.medium /= <<>> THEN tiers.medium ELSE tiers.low

\* what each tier of find_years accepts in the text (a tier is read only when
\* the tiers before it accepted nothing)
year_tiers(text) ==
    LET excluded == excluded_years(text)
    IN [high |-> year_tier(finditer_all(YEAR_HIGH_CONFIDENCE, text), text, excluded,
                           1, "high", "production_year_context"),
        medium |-> year_tier(finditer_all(YEAR_MEDIUM_CONFIDENCE, text), text,
                             excluded, 1, "medium", "contextual"),
        low |-> year_tier(finditer_all(YEAR_LOW_CONFIDENCE, text), text, excluded, 0,
                          "low", "standalone")]

find_years(text) == deduplicate_matches(fallback(year_tiers(text)))

\* re.search(pattern, s) finds a match
re_search(pattern, s) == finditer(pattern, s) /= <<>>

\* re.match(pattern, s): the end of the match at the start of s, 0 without one
re_match_end(pattern, s) ==
    LET rs == re_from(pattern, s, [pos |-> 1, g |-> <<<<0, 0>>, <<0, 0>>>>])
    IN IF rs = <<>> THEN 0 ELSE Head(rs).pos

\* (\d+(?:[.,]\d+)?)
ReNumber ==
    ReCat(<<RepAtLeast(ReSet(Digits), 1),
            Rep(ReCat(<<ReSet({".", ","}), RepAtLeast(ReSet(Digits), 1)>>), 0, 1)>>)

\* (?:\s*km)?$
ReKmEnd(blanks) ==
    ReCat(<<blanks, Rep(Lit(<<"k", "m">>), 0, 1), LineEnd>>)

\* the (whole, fraction) pairs, whole part of one digit, for which the double
\* product float(whole.fraction) * 1000 lies below the exact product, so that
\* int() gives one less
RoundedDown ==
    {<<2, <<"0", "1">>>>, <<2, <<"0", "3">>>>, <<4, <<"0", "2">>>>,
     <<4, <<"0", "6">>>>, <<8, <<"0", "3">>>>, <<8, <<"0", "4">>>>,
     <<8, <<"1", "1">>>>, <<8, <<"1", "2">>>>, <<8, <<"1", "9">>>>}

\* int(float(whole.fraction) * 1000), fraction of one or two digits (exact for a
\* whole part of one digit)
int_float_thousand(whole, fraction) ==
    LET exact == ToInt(whole) * 1000
                   + ToInt(fraction) * (IF Len(fraction) = 1 THEN 100 ELSE 10)
    IN IF <<ToInt(whole), fraction>> \in RoundedDown THEN exact - 1 ELSE exact

\* _parse_mileage
parse_mileage(number_str, full_text) ==
    LET full_text_lower == Strip(Lower(full_text))
        blanks == RepAtLeast(ReSet(Spaces), 0)
        has_tis ==
            re_search(ReCat(<<LineStart, ReNumber, blanks, Lit(<<"t", "i", "s">>),
                              Rep(Lit(<<"í", "c">>), 0, 1), Rep(Lit(<<".">>), 0, 1),
                              Rep(ReCat(<<blanks, Lit(<<"k", "m">>)>>), 0, 1),
                              LineEnd>>), full_text_lower)
        has_k ==
            re_search(ReCat(<<LineStart, ReNumber, blanks, Lit(<<"k">>),
                              ReKmEnd(blanks)>>), full_text_lower)
        has_t ==
            /\ re_search(ReCat(<<LineStart, ReNumber, blanks, Lit(<<"t">>),
                                 Rep(Lit(<<".">>), 0, 1), ReKmEnd(blanks)>>),
                         full_text_lower)
            /\ ~\E i \in 1..Len(full_text_lower) :
                   \/ At(full_text_lower, i, <<"t", "d", "i">>)
                   \/ At(full_text_lower, i, <<"t", "s", "i">>)
        has_xxx ==
            re_search(ReCat(<<LineStart, RepAtLeast(ReSet(Digits), 1), blanks,
                              Lit(<<"x", "x", "x">>), ReKmEnd(blanks)>>),
                      full_text_lower)
        has_stars ==
            \E i \in 1..Len(full_text) :
                \/ At(full_text, i, <<"*", "*", "*">>)
                \/ At(full_text, i, <<"*", " ", "*", " ", "*">>)
        multiply_by_thousand == has_tis \/ has_k \/ has_t \/ has_xxx \/ has_stars
        separator == ReSet({".", ","})
        \* (\d{1,3})[.,](\d{3})(?:[.,](\d{3}))?: the groups joined are the digits
        \* of the match
        thousands_sep_end ==
            re_match_end(ReCat(<<Rep(ReSet(Digits), 1, 3), separator,
                                 Rep(ReSet(Digits), 3, 3),
                                 Rep(ReCat(<<separator, Rep(ReSet(Digits), 3, 3)>>),
                                     0, 1)>>), number_str)
        \* (\d+)[.,](\d{1,2})
        whole_end == re_match_end(RepAtLeast(ReSet(Digits), 1), number_str)
        decimal_end ==
            re_match_end(ReCat(<<RepAtLeast(ReSet(Digits), 1), separator,
                                 Rep(ReSet(Digits), 1, 2)>>), number_str)
        joined_number == SelectSeq(number_str, IsDigit)
        base_value == ToInt(joined_number)
    IN IF thousands_sep_end > 0 /\ ~multiply_by_thousand
       THEN ToInt(SelectSeq(SubSeq(number_str, 1, thousands_sep_end - 1), IsDigit))
       ELSE IF decimal_end > 0 /\ multiply_by_thousand
       THEN int_float_thousand(SubSeq(number_str, 1, whole_end - 1),
                               SubSeq(number_str, whole_end + 1, decimal_end - 1))
       ELSE IF joined_number = <<>> THEN 0
       ELSE IF multiply_by_thousand /\ base_value < 1000 THEN base_value * 1000
       ELSE base_value

\* the start offsets of the numbers MILEAGE_EXCLUDE captures in the text
excluded_positions(text) ==
    LET ms == finditer_all(MILEAGE_EXCLUDE, text)
    IN {ms[i].g[1][1] - 1 : i \in 1..Len(ms)}

\* one tier of find_mileage: of the matches ms, those that do not start at an
\* excluded position, each with the value parsed from its two groups
RECURSIVE mileage_tier(_, _, _, _, _)
mileage_tier(ms, text, excluded, confidence, pattern_type) ==
    IF ms = <<>> THEN <<>>
    ELSE (IF (Head(ms).g[1][1] - 1) \notin excluded
          THEN <<Match(Slice(text, Head(ms).g[1]),
                       parse_mileage(Slice(text, Head(ms).g[2]),
                                     Slice(text, Head(ms).g[1])),
                       Head(ms).g[1][1] - 1,
                       Head(ms).g[1][2] - 1, confidence, pattern_type)>>
          ELSE <<>>)
             \o mileage_tier(Tail(ms), text, excluded, confidence, pattern_type)

\* what each tier of find_mileage accepts in the text
mileage_tiers(text) ==
    LET excluded == excluded_positions(text)
    IN [high |-> mileage_tier(finditer_all(MILEAGE_HIGH_CONFIDENCE, text), text,
                              excluded, "high", "mileage_context"),
        medium |-> mileage_tier(finditer_all(MILEAGE_MEDIUM_CONFIDENCE, text), text,
                                excluded, "medium", "standard"),
        low |-> <<>>]

find_mileage(text) == deduplicate_matches(fallback(mileage_tiers(text)))

\* one tier of find_power: of the matches ms, those of 30 to 500 kW
RECURSIVE power_tier(_, _, _, _)
power_tier(ms, text, confidence, pattern_type) ==
    IF ms = <<>> THEN <<>>
    ELSE LET value == ToInt(Slice(text, Head(ms).g[2]))
         IN (IF 30 <= value /\ value <= 500
             THEN <<Match(Slice(text, Head(ms).g[1]), value, Head(ms).g[1][1] - 1,
                          Head(ms).g[1][2] - 1, confidence, pattern_type)>>
             ELSE <<>>)
                \o power_tier(Tail(ms), text, confidence, pattern_type)

\* what each tier of find_power accepts in the text
power_tiers(text) ==
    [high |-> power_tier(finditer_all(POWER_HIGH_CONFIDENCE, text), text, "high",
                         "power_context"),
     medium |-> power_tier(finditer_all(POWER_MEDIUM_CONFIDENCE, text), text,
                           "medium", "standard"),
     low |-> <<>>]

find_power(text) == deduplicate_matches(fallback(power_tiers(text)))

----------------------------------------------------------------------------
(* save_queues: the two queue files and the statistics file.  A file is    *)
(* absent, holds a complete JSON document, or has been opened for writing  *)
(* and holds what has been written of the document so far.                 *)

Absent == [t |-> "absent", entries |-> <<>>]

Json(entries) == [t |-> "json", entries |-> entries]

Partial(entries) == [t |-> "partial", entries |-> entries]

\* variant of the extension: the file is rewritten with the queue alone
extended_overwrite(existing, queue) == queue

\* existing.extend(queue)
extended(existing, queue) == existing \o queue

\* a save_queues call: where it stands, its local `existing`, and, kept for the
\* properties, what the two queue files held when the call began (before) and
\* what the call appended to them (wrote)
Writer(pc, existing, before, wrote) ==
    [pc |-> pc, existing |-> existing, before |-> before, wrote |-> wrote]

Idle == Writer("idle", <<>>, <<<<>>, <<>>>>, <<<<>>, <<>>>>)

\* `if self.review_queue:` and what follows it
after_auto(rq) == IF rq /= <<>> THEN "review_load" ELSE "stats_open"

\* `if self.auto_training_queue:` and what follows it
after_call(aq, rq) == IF aq /= <<>> THEN "auto_load" ELSE after_auto(rq)

Flushing(w, aq, rq, af, rf, sf) ==
    [w |-> w, aq |-> aq, rq |-> rq, af |-> af, rf |-> rf, sf |-> sf]

\* one step of save_queues by a process whose queues are aq and rq and whose
\* statistics are st, on the files af, rf, sf: the call, then for each non-empty
\* queue json.load of the file if it exists, open(file, 'w'), json.dump of the
\* extended list and the emptying of the queue, then the statistics file
save_queues_step(w, aq, rq, st, af, rf, sf) ==
    CASE w.pc = "idle" ->
            Flushing(Writer(after_call(aq, rq), <<>>, <<af.entries, rf.entries>>,
                            <<<<>>, <<>>>>), aq, rq, af, rf, sf)
      [] w.pc = "auto_load" ->
            IF af.t = "partial"
            THEN Flushing([w EXCEPT !.pc = "raised"], aq, rq, af, rf, sf)
            ELSE Flushing([w EXCEPT !.pc = "auto_open", !.existing = af.entries],
                          aq, rq, af, rf, sf)
      [] w.pc = "auto_open" ->
            Flushing([w EXCEPT !.pc = "auto_dump"], aq, rq, Partial(<<>>), rf, sf)
      [] w.pc = "auto_dump" ->
            Flushing([w EXCEPT !.pc = after_auto(rq), !.wrote[1] = aq],
                     <<>>, rq, Json(extended(w.existing, aq)), rf, sf)
      [] w.pc = "review_load" ->
            IF rf.t = "partial"
            THEN Flushing([w EXCEPT !.pc = "raised"], aq, rq, af, rf, sf)
            ELSE Flushing([w EXCEPT !.pc = "review_open", !.existing = rf.entries],
                          aq, rq, af, rf, sf)
      [] w.pc = "review_open" ->
            Flushing([w EXCEPT !.pc = "review_dump"], aq, rq, af, Partial(<<>>), sf)
      [] w.pc = "review_dump" ->
            Flushing([w EXCEPT !.pc = "stats_open", !.wrote[2] = rq],
                     aq, <<>>, af, Json(extended(w.existing, rq)), sf)
      [] w.pc = "stats_open" ->
            Flushing([w EXCEPT !.pc = "stats_dump"], aq, rq, af, rf, Partial(<<>>))
      [] w.pc = "stats_dump" ->
            Flushing([w EXCEPT !.pc = "returned"], aq, rq, af, rf, Json(<<st>>))

\* the steps a call still has to take
Running == {"auto_load", "auto_open", "auto_dump", "review_load", "review_open",
            "review_dump", "stats_open", "stats_dump"}

\* save_queues from the call to its end, nothing else touching the files
RECURSIVE save_queues_run(_, _)
save_queues_run(o, st) ==
    IF o.w.pc \in Running \cup {"idle"}
    THEN save_queues_run(save_queues_step(o.w, o.aq, o.rq, st, o.af, o.rf, o.sf), st)
    ELSE o

----------------------------------------------------------------------------
(* Direct calls of the two resolvers: the arguments are drawn in the       *)
(* initial state, the call returns in one step.                            *)

MaxDigits == 2

DigitAlphabet == {"0", "9"}

DigitRuns == UNION {[1..n -> DigitAlphabet] : n \in 1..MaxDigits}

\* digit runs, a number with a blank between its digit groups, a number with a dot
Numbers == DigitRuns \cup {<<"9", " ", "0">>, <<"9", ".", "0">>}

Tails ==
    {<<>>, km, <<" ", "K", "M">>, <<" ", "m", "i">>, <<" ", "k", "w">>,
     <<" ", "p", "s">>, <<" ", "t", "i", "s", " ", "k", "m">>}

RawStrings ==
    {n \o t : n \in Numbers, t \in Tails}
        \cup {<<>>, <<" ">>, <<"k", "m", " ", "9">>, <<" ", "9", "0", "k", "m", " ">>}

\* what a caller may pass as a raw value
RawValues == {Str(s) : s \in RawStrings} \cup {None, NotAStr(<<"9", "0">>)}

PowerRawValues ==
    {None, Str(<<"9", "0", " ", "k", "w">>), Str(<<"9", "0", "K", "W">>),
     Str(<<"9", "9", " ", "k", "w">>), Str(<<"9", "0", " ", "p", "s">>),
     Str(<<"9", "0">>)}

ManualValues == {None, Str(<<"X">>), Str(<<>>)}

NoCall == [t |-> "nocall"]

NoResult == [t |-> "pending"]

Call(field, prefer_ml, ml_raw, regex_raw, manual_override) ==
    [t |-> "call", field |-> field, prefer_ml |-> prefer_ml, ml_raw |-> ml_raw,
     regex_raw |-> regex_raw, manual_override |-> manual_override]

\* ProductionExtractor.__init__
InitStats ==
    [total_extractions |-> 0, full_agreements |-> 0, partial_agreements |-> 0,
     disagreements |-> 0, ml_only |-> 0, regex_only |-> 0, both_empty |-> 0,
     field_stats |-> [f \in {"mileage", "year", "power", "fuel"} |->
                         [agree |-> 0, disagree |-> 0]]]

\* no second process
NoPeer == [w |-> Writer("none", <<>>, <<<<>>, <<>>>>, <<<<>>, <<>>>>),
           aq |-> <<>>, rq |-> <<>>]

\* a fresh working directory, no save_queues call under way
\* review_all is not running
NotReviewing ==
    [pc |-> "idle", loaded |-> <<>>, queue |-> <<>>, i |-> 0,
     reviewed_data |-> <<>>, skipped |-> <<>>]

\* neither the review tool nor the overlap fixer has run, nothing is fetched
NoTools ==
    /\ reviewed_data_file = Absent
    /\ review = NotReviewing
    /\ backup_file = Absent
    /\ fetch = <<>>
    /\ semaphore = 0

NoFiles ==
    /\ auto_training_file = Absent
    /\ review_queue_file = Absent
    /\ stats_file = Absent
    /\ flush = Idle
    /\ peer = NoPeer
    /\ NoTools

ExtractorConstructed ==
    /\ stats = InitStats
    /\ auto_training_queue = <<>>
    /\ review_queue = <<>>
    /\ inp = NoCall
    /\ resp = NoResult

InitResolve ==
    /\ \/ \E m \in RawValues, r \in RawValues, o \in {None, Str(<<"X">>)},
            p \in BOOLEAN :
              call = Call("mileage", p, m, r, o)
       \/ \E m \in PowerRawValues, r \in PowerRawValues, o \in ManualValues,
            p \in BOOLEAN :
              call = Call("power", p, m, r, o)
       \/ \E m \in PowerRawValues, r \in PowerRawValues, p \in BOOLEAN :
              call = Call("mileage", p, m, r, Str(<<>>))
    /\ res = NoResult
    /\ ExtractorConstructed
    /\ NoFiles

Resolve ==
    /\ call /= NoCall
    /\ res = NoResult
    /\ res' = IF call.field = "mileage"
              THEN resolve_mileage(call.ml_raw, call.regex_raw, call.prefer_ml,
                                   call.manual_override)
              ELSE resolve_power(call.ml_raw, call.regex_raw, call.prefer_ml,
                                 call.manual_override)
    /\ UNCHANGED <<call, stats, auto_training_queue, review_queue, inp, resp,
                   disk, flush, peer, offline, upstream>>

SpecResolve == InitResolve /\ [][Resolve]_vars

----------------------------------------------------------------------------
(* Listings handed to one extractor: what the learned model and the        *)
(* pattern extractor each return for the four fields.                      *)

MaxExtractions == 1

MlMileage == {None, Str(<<"1", "5", "0", "0", "0", "0", " ", "k", "m">>), Str(<<"9", "0", "0", "0", "0", " ", "k", "m">>), Str(<<"1", "5", "0", ".", "0", "0", "0", " ", "k", "m">>)}

RegexMileage == {None, Str(<<"1", "5", "0", " ", "0", "0", "0", " ", "k", "m">>), Str(<<"1", "5", "0", ".", "0", "0", "0", " ", "k", "m">>)}

MlPower == {None, Str(<<"1", "1", "0", " ", "k", "W">>), Str(<<"8", "1", " ", "k", "W">>)}

RegexPower == {None, Str(<<"1", "1", "0", " ", "k", "w">>)}

MlYear == {None, Str(<<"2", "0", "1", "5">>)}

RegexYear == {None, Str(<<"2", "0", "1", "5">>), Str(<<"2", "0", "1", "6">>)}

MlFuel == {None, Str(<<"d", "i", "e", "s", "e", "l">>)}

RegexFuel == {None, Str(<<"d", "i", "e", "s", "e", "l">>), Str(<<"n", "a", "f", "t", "a">>)}

Result(m, y, p, f) == [mileage |-> m, year |-> y, power |-> p, fuel |-> f]

MlResults == {Result(m, y, p, f) : m \in MlMileage, y \in MlYear, p \in MlPower, f \in MlFuel}

RegexResults ==
    {Result(m, y, p, f) : m \in RegexMileage, y \in RegexYear, p \in RegexPower,
                          f \in RegexFuel}

CarIds == {"1001"}

InitExtract ==
    /\ call = NoCall
    /\ res = NoResult
    /\ ExtractorConstructed
    /\ NoFiles

ExtractListing ==
    /\ call = NoCall
    /\ resp = NoResult
    /\ stats.total_extractions < MaxExtractions
    /\ \E c \in CarIds, ml \in MlResults, rx \in RegexResults : Extract(c, ml, rx)

\* the caller takes the returned record
Return ==
    /\ resp /= NoResult
    /\ resp.t /= "killed"
    /\ resp' = NoResult
    /\ inp' = NoCall
    /\ UNCHANGED <<call, res, stats, auto_training_queue, review_queue,
                   disk, flush, peer, offline, upstream>>

NextExtract == ExtractListing \/ Return

SpecExtract == InitExtract /\ [][NextExtract]_vars

----------------------------------------------------------------------------
(* A scraper run: process_data hands each listing to the one extractor,    *)
(* then save_queues flushes the queues (scraper/data_scrap.py).            *)

MaxCalls == 2

urls == {"1001", "1002"}

Diesel == Str(<<"d", "i", "e", "s", "e", "l">>)

Km150 == Str(<<"1", "5", "0", " ", "0", "0", "0", " ", "k", "m">>)

Kw110 == Str(<<"1", "1", "0", " ", "k", "w">>)

\* a listing on which the two extractors agree on every field, one on which
\* they differ on the year, and one on which the model found nothing the
\* patterns found
Listings ==
    {<<Result(Km150, Str(<<"2", "0", "1", "5">>), Kw110, Diesel),
       Result(Km150, Str(<<"2", "0", "1", "5">>), Kw110, Diesel)>>,
     <<Result(Km150, Str(<<"2", "0", "1", "5">>), Kw110, Diesel),
       Result(Km150, Str(<<"2", "0", "1", "6">>), Kw110, Diesel)>>,
     <<Result(Str(<<"9", "0", "0", "0", "0", " ", "k", "m">>), Str(<<"2", "0", "1", "5">>),
              Str(<<"8", "1", " ", "k", "W">>), None),
       Result(Km150, Str(<<"2", "0", "1", "6">>), Kw110, Diesel)>>}

\* entries an earlier run left in the two queue files
PersistedAuto == <<auto_training_entry("0901")>>

\* a listing of which only the pattern extractor found the mileage, and on
\* whose year and power the extractors disagree
RegexOnlyMileage ==
    <<Result(None, Str(<<"2", "0", "1", "5">>), Str(<<"8", "1", " ", "k", "W">>), None),
      Result(Km150, Str(<<"2", "0", "1", "6">>), Kw110, Diesel)>>

\* the review entry an earlier run's extract call queued for a listing
queued(car_id, ml_result, regex_result) ==
    review_entry(car_id, ml_result, regex_result,
                 compare_results(ml_result, regex_result,
                                 resolve_power(ml_result["power"],
                                               regex_result["power"], FALSE, None),
                                 resolve_mileage(ml_result["mileage"],
                                                 regex_result["mileage"], TRUE, None)))

PersistedReview == <<queued("0902", RegexOnlyMileage[1], RegexOnlyMileage[2])>>

InitQueues ==
    /\ call = NoCall
    /\ res = NoResult
    /\ ExtractorConstructed
    /\ \/ /\ auto_training_file = Absent
          /\ review_queue_file = Absent
          /\ stats_file = Absent
       \/ /\ auto_training_file = Json(PersistedAuto)
          /\ review_queue_file = Json(PersistedReview)
          /\ stats_file = Json(<<InitStats>>)
    /\ flush = Idle
    /\ peer = NoPeer
    /\ NoTools

\* process_data: extractor.extract(combined_text, car_id=url) returns
process_data ==
    /\ resp = NoResult
    /\ flush.pc = "idle"
    /\ stats.total_extractions < MaxCalls
    /\ \E url \in urls, l \in Listings : Extract(url, l[1], l[2])

\* process_data: self.ml_extractor.extract(text) raises inside extract, after the
\* call has been counted; nothing catches it
process_data_raises ==
    /\ resp = NoResult
    /\ flush.pc = "idle"
    /\ stats.total_extractions < MaxCalls
    /\ \E url \in urls :
          /\ stats' = [stats EXCEPT !.total_extractions = @ + 1]
          /\ inp' = [t |-> "extract", car_id |-> url]
          /\ resp' = [t |-> "raised"]
    /\ UNCHANGED <<call, res, auto_training_queue, review_queue, disk, flush, peer,
                   offline, upstream>>

\* extractor.save_queues(), nothing else touching the files while it runs
save_queues ==
    /\ resp = NoResult
    /\ flush.pc = "idle"
    /\ \E o \in {save_queues_run(Flushing(flush, auto_training_queue, review_queue,
                                          auto_training_file, review_queue_file,
                                          stats_file), stats)} :
          /\ auto_training_queue' = o.aq
          /\ review_queue' = o.rq
          /\ auto_training_file' = o.af
          /\ review_queue_file' = o.rf
          /\ stats_file' = o.sf
          /\ flush' = [o.w EXCEPT !.pc = "idle"]
          /\ resp' = [t |-> IF o.w.pc = "returned" THEN "saved" ELSE "raised"]
    /\ inp' = [t |-> "save_queues"]
    /\ UNCHANGED <<call, res, stats, peer, offline, upstream>>

NextQueues == process_data \/ process_data_raises \/ save_queues \/ Return

SpecQueues == InitQueues /\ [][NextQueues]_vars

\* a run in which every extract call returns
NextReturning == process_data \/ save_queues \/ Return

SpecReturning == InitQueues /\ [][NextReturning]_vars

----------------------------------------------------------------------------
(* save_queues statement by statement: the flush can fail or be killed     *)
(* between two statements (SpecFlush), and a second process can flush to   *)
(* the same files in between (SpecWriters).                                *)

\* the extractor's save_queues call is made, or takes its next statement
save_queues_steps ==
    /\ resp = NoResult
    /\ flush.pc \in Running \cup {"idle"}
    /\ \E o \in {save_queues_step(flush, auto_training_queue, review_queue, stats,
                                  auto_training_file, review_queue_file, stats_file)} :
          /\ auto_training_queue' = o.aq
          /\ review_queue' = o.rq
          /\ auto_training_file' = o.af
          /\ review_queue_file' = o.rf
          /\ stats_file' = o.sf
          /\ flush' = IF o.w.pc \in Running THEN o.w ELSE [o.w EXCEPT !.pc = "idle"]
          /\ resp' = IF o.w.pc = "returned" THEN [t |-> "saved"]
                     ELSE IF o.w.pc = "raised" THEN [t |-> "raised"]
                     ELSE resp
    /\ inp' = [t |-> "save_queues"]
    /\ UNCHANGED <<call, res, stats, peer, offline, upstream>>

\* the file being written when a write stops early: opened with 'w', it holds
\* some proper prefix of the document
Interrupted(file, document) ==
    IF file.t = "partial"
    THEN {Partial(SubSeq(document, 1, k)) : k \in 0..(Len(document) - 1)}
    ELSE {file}

\* what the statement at pc is writing to each file
Document(pc, existing, aq, rq, st) ==
    [af |-> IF pc = "auto_dump" THEN extended(existing, aq) ELSE <<>>,
     rf |-> IF pc = "review_dump" THEN extended(existing, rq) ELSE <<>>,
     sf |-> IF pc = "stats_dump" THEN <<st>> ELSE <<>>]

\* open(file, 'w') or json.dump raises OSError: the exception leaves save_queues,
\* the queues are as they were
save_queues_fails ==
    /\ resp = NoResult
    /\ flush.pc \in {"auto_open", "auto_dump", "review_open", "review_dump",
                     "stats_open", "stats_dump"}
    /\ \E d \in {Document(flush.pc, flush.existing, auto_training_queue,
                          review_queue, stats)} :
          /\ auto_training_file' \in
                IF flush.pc = "auto_dump"
                THEN Interrupted(auto_training_file, d.af) ELSE {auto_training_file}
          /\ review_queue_file' \in
                IF flush.pc = "review_dump"
                THEN Interrupted(review_queue_file, d.rf) ELSE {review_queue_file}
          /\ stats_file' \in
                IF flush.pc = "stats_dump"
                THEN Interrupted(stats_file, d.sf) ELSE {stats_file}
    /\ flush' = [flush EXCEPT !.pc = "idle"]
    /\ resp' = [t |-> "io_error"]
    /\ UNCHANGED <<call, res, stats, auto_training_queue, review_queue, inp, peer,
                   offline, upstream>>

\* the process is killed inside save_queues: the run is over, the files stay as
\* the kill left them
killed ==
    /\ resp = NoResult
    /\ flush.pc \in Running
    /\ \E d \in {Document(flush.pc, flush.existing, auto_training_queue,
                          review_queue, stats)} :
          /\ auto_training_file' \in
                IF flush.pc = "auto_dump"
                THEN Interrupted(auto_training_file, d.af) ELSE {auto_training_file}
          /\ review_queue_file' \in
                IF flush.pc = "review_dump"
                THEN Interrupted(review_queue_file, d.rf) ELSE {review_queue_file}
          /\ stats_file' \in
                IF flush.pc = "stats_dump"
                THEN Interrupted(stats_file, d.sf) ELSE {stats_file}
    /\ flush' = [flush EXCEPT !.pc = "killed"]
    /\ resp' = [t |-> "killed"]
    /\ UNCHANGED <<call, res, stats, auto_training_queue, review_queue, inp, peer,
                   offline, upstream>>

NextFlush ==
    process_data \/ save_queues_steps \/ save_queues_fails \/ killed \/ Return

SpecFlush == InitQueues /\ [][NextFlush]_vars

\* a second scraper process, its queues filled from other listings
PeerProcess ==
    [w |-> Idle,
     aq |-> <<auto_training_entry("2001")>>,
     rq |-> <<[car_id |-> "2002", agreements |-> <<"fuel">>,
               disagreements |-> <<"mileage", "year", "power">>]>>]

PeerStats == [InitStats EXCEPT !.total_extractions = 2, !.full_agreements = 1,
                               !.disagreements = 1]

InitWriters ==
    /\ call = NoCall
    /\ res = NoResult
    /\ ExtractorConstructed
    /\ \/ /\ auto_training_file = Absent
          /\ review_queue_file = Absent
          /\ stats_file = Absent
       \/ /\ auto_training_file = Json(PersistedAuto)
          /\ review_queue_file = Json(PersistedReview)
          /\ stats_file = Json(<<InitStats>>)
    /\ flush = Idle
    /\ peer = PeerProcess
    /\ NoTools

\* the second process's save_queues call is made, or takes its next statement
peer_steps ==
    /\ peer.w.pc \in Running \cup {"idle"}
    /\ \E o \in {save_queues_step(peer.w, peer.aq, peer.rq, PeerStats,
                                  auto_training_file, review_queue_file, stats_file)} :
          /\ peer' = [w |-> o.w, aq |-> o.aq, rq |-> o.rq]
          /\ auto_training_file' = o.af
          /\ review_queue_file' = o.rf
          /\ stats_file' = o.sf
    /\ UNCHANGED <<call, res, stats, auto_training_queue, review_queue, inp, resp,
                   flush, offline, upstream>>

NextWriters == process_data \/ save_queues_steps \/ peer_steps \/ Return

SpecWriters == InitWriters /\ [][NextWriters]_vars

----------------------------------------------------------------------------
(* Direct calls of the pattern finders: the method and the text are drawn  *)
(* in the initial state, the call returns its candidates in one step.      *)
MaxPhrases == 2

RokVyroby2015 ==
    <<"r", "o", "k", " ", "v", "ý", "r", "o", "b", "y", " ", "2", "0", "1", "5">>

StkDo2027 == <<"S", "T", "K", " ", "d", "o", " ", "2", "0", "2", "7">>

\* what a listing says of the model, the year, the inspection, the service,
\* the mileage and the power, in the order it says it
Phrases ==
    << <<"V", "W", " ", "G", "o", "l", "f", " ", "2", "0", "1", "6">>,
       RokVyroby2015,
       <<"m", "o", "d", "e", "l", " ", "2", "0", "1", "4">>,
       StkDo2027,
       <<"s", "e", "r", "v", "i", "s", " ", "2", "0", "1", "5">>,
       <<"n", "a", "j", "e", "t", "o", " ", "1", "5", "0", ".", "0", "0", "0", " ",
         "t", "i", "s", " ", "k", "m">>,
       <<"1", "5", "0", " ", "0", "0", "0", " ", "k", "m">>,
       <<"1", ".", "5", " ", "t", "i", "s", " ", "k", "m">>,
       <<"1", "5", "0", "k", " ", "k", "m">>,
       <<"v", "ý", "k", "o", "n", " ", "1", "1", "0", " ", "k", "W">>,
       <<"8", "1", " ", "k", "w">> >>

Join(phrase, text) == IF text = <<>> THEN phrase ELSE phrase \o <<",", " ">> \o text

\* the texts of at most n of the phrases from the i-th on
RECURSIVE TextsFrom(_, _)
TextsFrom(i, n) ==
    IF n = 0 \/ i > Len(Phrases) THEN {<<>>}
    ELSE TextsFrom(i + 1, n) \cup {Join(Phrases[i], t) : t \in TextsFrom(i + 1, n - 1)}

Texts == TextsFrom(1, MaxPhrases)

Finders == {"find_years", "find_mileage", "find_power"}

InitPatterns ==
    /\ \E m \in Finders, text \in Texts : call = [t |-> m, text |-> text]
    /\ res = NoResult
    /\ ExtractorConstructed
    /\ NoFiles

Found(matches) == [t |-> "found", matches |-> matches]

FindYears ==
    /\ res = NoResult
    /\ call.t = "find_years"
    /\ res' = Found(find_years(call.text))
    /\ UNCHANGED <<call, stats, auto_training_queue, review_queue, inp, resp,
                   disk, flush, peer, offline, upstream>>

FindMileage ==
    /\ res = NoResult
    /\ call.t = "find_mileage"
    /\ res' = Found(find_mileage(call.text))
    /\ UNCHANGED <<call, stats, auto_training_queue, review_queue, inp, resp,
                   disk, flush, peer, offline, upstream>>

FindPower ==
    /\ res = NoResult
    /\ call.t = "find_power"
    /\ res' = Found(find_power(call.text))
    /\ UNCHANGED <<call, stats, auto_training_queue, review_queue, inp, resp,
                   disk, flush, peer, offline, upstream>>

NextPatterns == FindYears \/ FindMileage \/ FindPower

SpecPatterns == InitPatterns /\ [][NextPatterns]_vars

----------------------------------------------------------------------------
(* Direct calls of the two normalizers: the raw value is a number written  *)
(* in digit groups and a unit, in one of its spellings.                    *)

MaxGroups == 3

DigitGroups == {<<"9">>, <<"9", "0">>, <<"0", "0", "0">>}

\* the groups, with sep between two of them
RECURSIVE JoinGroups(_, _)
JoinGroups(groups, sep) ==
    IF Len(groups) = 1 THEN groups[1]
    ELSE groups[1] \o sep \o JoinGroups(Tail(groups), sep)

\* spellings of units that are their own canonical form in lower case
UnitSpellings ==
    [mileage |-> {km, <<"K", "M">>, <<"K", "m">>, <<"M", "I">>},
     power |-> {kw, <<"K", "W">>, <<"P", "s">>}]

InitNormalize ==
    /\ \E field \in {"mileage", "power"}, n \in 1..MaxGroups,
          sep \in {<<>>, <<" ">>}, gap \in {<<>>, <<" ">>, <<" ", " ">>},
          pad \in {<<>>, <<" ">>} :
       \E groups \in [1..n -> DigitGroups], unit \in UnitSpellings[field] :
          call = [t |-> "normalize", field |-> field, groups |-> groups,
                  sep |-> sep, gap |-> gap, pad |-> pad, unit |-> unit,
                  raw_value |->
                      Str(pad \o JoinGroups(groups, sep) \o gap \o unit \o pad)]
    /\ res = NoResult
    /\ ExtractorConstructed
    /\ NoFiles

\* MileageNormalizer.normalize or PowerNormalizer.normalize returns
Normalize ==
    /\ res = NoResult
    /\ call.t = "normalize"
    /\ res' = [t |-> "normalized",
               value |-> IF call.field = "mileage" THEN normalize(call.raw_value)
                         ELSE power_normalize(call.raw_value)]
    /\ UNCHANGED <<call, stats, auto_training_queue, review_queue, inp, resp,
                   disk, flush, peer, offline, upstream>>

SpecNormalize == InitNormalize /\ [][Normalize]_vars

----------------------------------------------------------------------------
(* _add_to_auto_training called directly: the example it appends            *)

\* s.find(sub): the offset of the first occurrence, -1 without one
str_find(s, sub) ==
    LET at == {i \in 1..Len(s) : At(s, i, sub)}
    IN IF sub = <<>> THEN 0
       ELSE IF at = {} THEN -1
       ELSE (CHOOSE i \in at : \A j \in at : i <= j) - 1

\* re.search(pattern, text, re.IGNORECASE) of the first of the patterns that
\* matches: (match.start(), match.end()), <<>> when none matches
RECURSIVE first_search(_, _)
first_search(patterns, text) ==
    IF patterns = <<>> THEN <<>>
    ELSE LET ms == finditer(Head(patterns), text)
         IN IF ms /= <<>> THEN <<Head(ms).span[1] - 1, Head(ms).span[2] - 1>>
            ELSE first_search(Tail(patterns), text)

\* the entry _add_to_auto_training appends for a text and the resolved raw
\* values.  The power value is interpolated into the pattern as it is; it is
\* modelled for values of letters, digits and blanks, which match themselves.
add_to_auto_training(text, result, car_id) ==
    LET blank == Rep(ReSet(Spaces), 0, 1)
        patterns ==
            <<
             \* \d{1,3}(?:\s?\d{3})*\s?km
             ReCat(<<Rep(ReSet(Digits), 1, 3),
                     RepAtLeast(ReCat(<<blank, Rep(ReSet(Digits), 3, 3)>>), 0),
                     blank, Lit(km)>>),
             \* \d{1,3}\s?(?:tis|t)\s?km
             ReCat(<<Rep(ReSet(Digits), 1, 3), blank,
                     ReAlt(<<Lit(<<"t", "i", "s">>), Lit(<<"t">>)>>), blank, Lit(km)>>)
            >>
        mileage == IF Truthy(result.mileage) THEN first_search(patterns, text)
                   ELSE <<>>
        year == IF Truthy(result.year) THEN str_find(text, result.year.s) ELSE -1
        \* rf"{result['power']}\s?(?:kw|ps|koní)"
        power ==
            IF Truthy(result.power)
            THEN first_search(<<ReCat(<<Lit(Lower(result.power.s)), blank,
                                        ReAlt(<<Lit(<<"k", "w">>), Lit(<<"p", "s">>),
                                                Lit(<<"k", "o", "n", "í">>)>>)>>)>>,
                              text)
            ELSE <<>>
        fuel == IF Truthy(result.fuel)
                THEN str_find(Lower(text), Lower(result.fuel.s))
                ELSE -1
        entities ==
            (IF mileage /= <<>> THEN << <<mileage[1], mileage[2], "MILEAGE">> >>
             ELSE <<>>)
              \o (IF year /= -1 THEN << <<year, year + 4, "YEAR">> >> ELSE <<>>)
              \o (IF power /= <<>> THEN << <<power[1], power[2], "POWER">> >>
                  ELSE <<>>)
              \o (IF fuel /= -1
                  THEN << <<fuel, fuel + Len(result.fuel.s), "FUEL">> >>
                  ELSE <<>>)
    IN [data |-> [text |-> text, entities |-> entities], car_id |-> car_id,
        confidence |-> "high", source |-> "auto_agreement"]

\* how a listing writes its mileage, year, power and fuel
MileagePhrases ==
    {<<"1", "5", "0", " ", "0", "0", "0", " ", "k", "m">>,
     <<"1", "5", "0", ".", "0", "0", "0", " ", "k", "m">>,
     <<"1", "5", "0", " ", "t", "i", "s", " ", "k", "m">>}

YearPhrases == {<<"2", "0", "1", "5">>, <<"2", "0", "1", "6">>}

PowerPhrases == {<<"1", "1", "0", " ", "k", "W">>, <<"8", "1", "k", "w">>}

FuelPhrases == {<<"d", "i", "e", "s", "e", "l">>, <<"B", "e", "n", "z", "i", "n">>}

\* a listing with one phrase of each field
ListingText(m, y, p, f) ==
    <<"n", "a", "j", "e", "t", "o", " ">> \o m \o <<",", " ", "r", "o", "k", " ">>
        \o y \o <<",", " ">> \o p \o <<",", " ">> \o f

\* the call after a full agreement: each resolved raw value is None (neither
\* extractor found the field) or the phrase of the text as an extractor
\* returned it (the power also without its unit, the fuel also in lower case)
InitAutoTraining ==
    /\ \E m \in MileagePhrases, y \in YearPhrases, p \in PowerPhrases, f \in FuelPhrases :
       \E result \in [mileage : {None, Str(m)}, year : {None, Str(y)},
                      power : {None, Str(p), Str(SelectSeq(p, IsDigit))},
                      fuel : {None, Str(f), Str(Lower(f))}] :
          call = [t |-> "add_to_auto_training", text |-> ListingText(m, y, p, f),
                  result |-> result, car_id |-> "1001"]
    /\ res = NoResult
    /\ ExtractorConstructed
    /\ NoFiles

\* _add_to_auto_training returns
AddToAutoTraining ==
    /\ res = NoResult
    /\ call.t = "add_to_auto_training"
    /\ auto_training_queue' =
          Append(auto_training_queue,
                 add_to_auto_training(call.text, call.result, call.car_id))
    /\ res' = [t |-> "returned"]
    /\ UNCHANGED <<call, stats, review_queue, inp, resp, disk, flush, peer,
                   offline, upstream>>

SpecAutoTraining == InitAutoTraining /\ [][AddToAutoTraining]_vars

----------------------------------------------------------------------------
(* review_disagreements.py: a review session over the review queue file, run *)
(* between the scraper's runs                                                *)

\* {item.get('car_id') for item in existing_reviews if item.get('car_id')}
\* (every car_id of the model is a non-empty string)
reviewed_car_ids(existing_reviews) ==
    {existing_reviews[k].car_id : k \in 1..Len(existing_reviews)}

\* variant of the filter: the cases already reviewed are presented again
unreviewed_all(queue, ids) == queue

\* [case for case in queue if case.get('car_id') not in reviewed_car_ids]
unreviewed(queue, ids) == SelectSeq(queue, LAMBDA case : case.car_id \notin ids)

\* what the reviewer types: disagreement at each prompt of a disagreeing field,
\* only at each prompt of a field one extractor found
AnswerSheets ==
    {[disagreement |-> "1", only |-> "y"], [disagreement |-> "2", only |-> "n"],
     [disagreement |-> "skip", only |-> "skip"],
     [disagreement |-> "quit", only |-> "quit"],
     [disagreement |-> "1", only |-> "quit"]}

\* parse_user_input of an answer that is none of the choices offered: the
\* answer itself (the answers of the model are single characters)
parse_user_input(choice) == Str(<<choice>>)

\* the loop over the fields of a case from the given fields on: how the case
\* ends (reviewed, skip or quit) and the corrected values
RECURSIVE review_fields(_, _, _, _)
review_fields(case, answers, fields, corrected_result) ==
    IF fields = <<>>
    THEN [outcome |-> "reviewed", corrected_result |-> corrected_result]
    ELSE LET field == Head(fields)
             ml_value == case.ml_result[field]
             regex_value == case.regex_result[field]
             prompt ==
                 IF InList(field, case.comparison.disagreements) THEN "disagreement"
                 ELSE IF InList(field, case.comparison.ml_only) THEN "ml_only"
                 ELSE IF InList(field, case.comparison.regex_only) THEN "regex_only"
                 ELSE "none"
             choice == IF prompt = "disagreement" THEN answers.disagreement
                       ELSE answers.only
             value ==
                 IF prompt = "disagreement"
                 THEN IF choice = "1" THEN ml_value
                      ELSE IF choice = "2" THEN regex_value
                      ELSE IF choice = "3" THEN None
                      ELSE parse_user_input(choice)
                 ELSE IF prompt \in {"ml_only", "regex_only"}
                 THEN IF choice \in {"y", ""}
                      THEN IF prompt = "ml_only" THEN ml_value ELSE regex_value
                      ELSE IF choice = "n" THEN None
                      ELSE parse_user_input(choice)
                 \* Both agree or both empty: Use ML value (they're the same)
                 ELSE ml_value
         IN IF prompt /= "none" /\ choice \in {"skip", "quit"}
            THEN [outcome |-> choice, corrected_result |-> corrected_result]
            ELSE review_fields(case, answers, Tail(fields),
                               [corrected_result EXCEPT ![field] = value])

\* the entry appended to reviewed_data.  The training example of the entry
\* labels the spans at which _create_entities finds the corrected values in the
\* text; the entry of the model keeps the values.
reviewed_entry(case, corrected_result) ==
    [car_id |-> case.car_id, corrected_result |-> corrected_result,
     source |-> "manual_review"]

\* _save_reviewed_data: the two files after it
save_reviewed_data(reviewed, skipped, remaining) ==
    LET existing == IF reviewed_data_file.t = "absent" THEN <<>>
                    ELSE reviewed_data_file.entries
        new_queue == skipped \o remaining
    IN [reviewed_data_file |-> IF reviewed /= <<>> THEN Json(existing \o reviewed)
                               ELSE reviewed_data_file,
        review_queue_file |-> IF new_queue /= <<>> THEN Json(new_queue) ELSE Absent]

Reviewing(loaded, queue, i, reviewed_data, skipped) ==
    [pc |-> "case", loaded |-> loaded, queue |-> queue, i |-> i,
     reviewed_data |-> reviewed_data, skipped |-> skipped]

\* review_all has returned; loaded is the queue it read, queue what it kept
\* of it
Reviewed(r) == [r EXCEPT !.pc = "done"]

\* review_all is started: it returns at once, or reaches the prompt of its
\* first case
review_all ==
    /\ review.pc \in {"idle", "done"}
    /\ resp = NoResult
    /\ flush.pc = "idle"
    /\ IF review_queue_file.t = "absent" \/ review_queue_file.entries = <<>>
       THEN /\ review' = Reviewed(NotReviewing)
            /\ UNCHANGED review_queue_file
       ELSE LET loaded == review_queue_file.entries
                ids == IF reviewed_data_file.t = "absent" THEN {}
                       ELSE reviewed_car_ids(reviewed_data_file.entries)
                queue == unreviewed(loaded, ids)
            IN IF queue = <<>>
               THEN /\ review' = Reviewed(Reviewing(loaded, queue, 0, <<>>, <<>>))
                    /\ review_queue_file' = Absent
               ELSE /\ review' = Reviewing(loaded, queue, 1, <<>>, <<>>)
                    /\ UNCHANGED review_queue_file
    /\ UNCHANGED <<call, res, stats, auto_training_queue, review_queue, inp, resp,
                   auto_training_file, stats_file, flush, peer,
                   reviewed_data_file, backup_file, upstream>>

\* the reviewer answers the prompts of the case under review: the case is
\* reviewed or skipped, and review_all goes to the next case or, after the last
\* one, saves and returns; or the reviewer types quit, and it saves and returns
review_case ==
    /\ review.pc = "case"
    /\ \E answers \in AnswerSheets :
          LET case == review.queue[review.i]
              r == review_fields(case, answers, Fields, [f \in FieldSet |-> None])
              reviewed_data ==
                  IF r.outcome = "reviewed"
                  THEN Append(review.reviewed_data,
                              reviewed_entry(case, r.corrected_result))
                  ELSE review.reviewed_data
              skipped == IF r.outcome = "skip" THEN Append(review.skipped, case)
                         ELSE review.skipped
              last == review.i = Len(review.queue)
              \* queue[i:], i counted from 1 by enumerate(queue, 1)
              remaining == IF r.outcome = "quit"
                           THEN SubSeq(review.queue, review.i + 1, Len(review.queue))
                           ELSE <<>>
              saved == save_reviewed_data(reviewed_data, skipped, remaining)
          IN IF r.outcome = "quit" \/ last
             THEN /\ review' = Reviewed([review EXCEPT !.reviewed_data = reviewed_data,
                                                        !.skipped = skipped])
                  /\ reviewed_data_file' = saved.reviewed_data_file
                  /\ review_queue_file' = saved.review_queue_file
             ELSE /\ review' = [review EXCEPT !.i = @ + 1,
                                              !.reviewed_data = reviewed_data,
                                              !.skipped = skipped]
                  /\ UNCHANGED <<reviewed_data_file, review_queue_file>>
    /\ UNCHANGED <<call, res, stats, auto_training_queue, review_queue, inp, resp,
                   auto_training_file, stats_file, flush, peer, backup_file,
                   upstream>>

\* the scraper runs and the reviewer's sessions, one at a time
NextReview == process_data \/ save_queues \/ Return \/ review_all \/ review_case

SpecReview == InitQueues /\ [][NextReview]_vars

----------------------------------------------------------------------------
(* fix_overlapping_entities.py: fix_training_file on auto_training_data.json *)

ENTITY_PRIORITY == [MILEAGE |-> 4, YEAR |-> 3, POWER |-> 2, FUEL |-> 1]

entities_overlap(ent1, ent2) == ~(ent1[2] <= ent2[1] \/ ent2[2] <= ent1[1])

resolve_overlap(ent1, ent2) ==
    LET len1 == ent1[2] - ent1[1]
        len2 == ent2[2] - ent2[1]
        by_priority == IF ENTITY_PRIORITY[ent1[3]] >= ENTITY_PRIORITY[ent2[3]]
                       THEN ent1 ELSE ent2
    IN IF ent1[1] = ent2[1] /\ ent1[2] = ent2[2] THEN by_priority
       ELSE IF len1 > len2 THEN ent1
       ELSE IF len2 > len1 THEN ent2
       ELSE by_priority

\* ent put into the sorted list after the entities that do not come after it
RECURSIVE insert_entity(_, _)
insert_entity(ent, sorted) ==
    IF sorted = <<>> THEN <<ent>>
    ELSE IF ent[1] < Head(sorted)[1]
            \/ (ent[1] = Head(sorted)[1] /\ ent[2] < Head(sorted)[2])
    THEN <<ent>> \o sorted
    ELSE <<Head(sorted)>> \o insert_entity(ent, Tail(sorted))

\* sorted(entities, key=lambda x: (x[0], x[1])): stable
RECURSIVE sorted_entities(_)
sorted_entities(entities) ==
    IF entities = <<>> THEN <<>>
    ELSE insert_entity(entities[Len(entities)],
                       sorted_entities(SubSeq(entities, 1, Len(entities) - 1)))

\* the inner loop of remove_overlaps: current against the entities after it;
\* each one that overlaps it is popped and the winner becomes current
RECURSIVE overlaps_resolved(_, _)
overlaps_resolved(current, rest) ==
    IF rest = <<>> THEN [current |-> current, rest |-> <<>>, changes |-> 0]
    ELSE IF entities_overlap(current, Head(rest))
    THEN LET r == overlaps_resolved(resolve_overlap(current, Head(rest)), Tail(rest))
         IN [r EXCEPT !.changes = @ + 1]
    ELSE LET r == overlaps_resolved(current, Tail(rest))
         IN [r EXCEPT !.rest = <<Head(rest)>> \o @]

\* the outer loop of remove_overlaps
RECURSIVE cleaned_entities(_)
cleaned_entities(sorted) ==
    IF sorted = <<>> THEN [cleaned |-> <<>>, changes |-> 0]
    ELSE LET r == overlaps_resolved(Head(sorted), Tail(sorted))
             c == cleaned_entities(r.rest)
         IN [cleaned |-> <<r.current>> \o c.cleaned, changes |-> r.changes + c.changes]

\* the final pass of remove_overlaps: an entity that overlaps one already
\* added is left out
RECURSIVE final_cleaned(_, _)
final_cleaned(cleaned, added) ==
    IF cleaned = <<>> THEN added
    ELSE final_cleaned(Tail(cleaned),
                       IF \E k \in 1..Len(added) :
                              entities_overlap(Head(cleaned), added[k])
                       THEN added ELSE Append(added, Head(cleaned)))

\* remove_overlaps: the entities kept and the number of changes logged
remove_overlaps(entities) ==
    IF Len(entities) <= 1 THEN [entities |-> entities, changes |-> 0]
    ELSE LET c == cleaned_entities(sorted_entities(entities))
         IN [entities |-> final_cleaned(c.cleaned, <<>>), changes |-> c.changes]

\* the loop of fix_training_file over the loaded data: an item with changes
\* gets the cleaned entities
fixed_item(item) ==
    LET r == remove_overlaps(item.data.entities)
    IN IF r.changes > 0 THEN [item EXCEPT !.data.entities = r.entities] ELSE item

MaxEntities == 3

\* the entities a training example may carry on its text
EntityPool ==
    {<<0, 10, "MILEAGE">>, <<4, 10, "YEAR">>, <<0, 10, "POWER">>,
     <<12, 16, "YEAR">>, <<14, 20, "POWER">>}

\* the lists of at most n distinct entities of the pool
RECURSIVE EntityLists(_)
EntityLists(n) ==
    IF n = 0 THEN {<<>>}
    ELSE LET shorter == EntityLists(n - 1)
         IN shorter \cup {Append(l, e) : l \in shorter,
                                         e \in EntityPool}

NoRepeat(l) == \A i, j \in 1..Len(l) : l[i] = l[j] => i = j

training_example(car_id, entities) ==
    [data |-> [text |-> <<>>, entities |-> entities], car_id |-> car_id,
     confidence |-> "high", source |-> "auto_agreement"]

\* auto_training_data.json holds an example without overlap and an example
\* with any entities; fix_training_file is called on it
InitFix ==
    /\ \E entities \in {l \in EntityLists(MaxEntities) : NoRepeat(l)} :
          /\ auto_training_file =
                Json(<<training_example("0901", <<<<0, 10, "MILEAGE">>,
                                                   <<12, 16, "YEAR">>>>),
                       training_example("1001", entities)>>)
          /\ call = [t |-> "fix_training_file", data |-> auto_training_file.entries]
    /\ res = NoResult
    /\ ExtractorConstructed
    /\ review_queue_file = Absent
    /\ stats_file = Absent
    /\ flush = Idle
    /\ peer = NoPeer
    /\ NoTools

\* fix_training_file returns.  The items of data are changed in place before
\* the backup is written, and both files are dumped from data.
fix_training_file ==
    /\ res = NoResult
    /\ call.t = "fix_training_file"
    /\ auto_training_file.t /= "absent"
    /\ LET loaded == auto_training_file.entries
           data == [k \in 1..Len(loaded) |-> fixed_item(loaded[k])]
           fixed_examples == Cardinality({k \in 1..Len(loaded) : data[k] /= loaded[k]})
       IN /\ IF fixed_examples > 0
             THEN /\ backup_file' = Json(data)
                  /\ auto_training_file' = Json(data)
             ELSE UNCHANGED <<backup_file, auto_training_file>>
          /\ res' = [t |-> "fixed", total_examples |-> Len(loaded),
                     fixed_examples |-> fixed_examples]
    /\ UNCHANGED <<call, stats, auto_training_queue, review_queue, inp, resp,
                   review_queue_file, stats_file, flush, peer, reviewed_data_file,
                   review, upstream>>

SpecFix == InitFix /\ [][fix_training_file]_vars

----------------------------------------------------------------------------
(* data_scrap.py: the fetch_data coroutines of one chunk and the semaphore   *)
(* they share                                                                *)

RETRY_ATTEMPTS == 3

RETRY_DELAY == 1

\* the coroutines of the chunk and the permits of the semaphore (the scraper
\* gathers CHUNK_SIZE = 50 of them over MAX_CONCURRENT_REQUESTS = 20 permits)
MaxFetchers == 2

MaxPermits == 1

Fetchers == 1..MaxFetchers

\* how a request ends: the body arrives, asyncio.TimeoutError,
\* aiohttp.ClientError (raise_for_status included), any other Exception
Outcomes == {"body", "timeout", "client_error", "exception"}

\* variant of the delay: the same after every attempt
backoff_flat(attempt) == RETRY_DELAY

\* RETRY_DELAY * (attempt + 1)
backoff(attempt) == RETRY_DELAY * (attempt + 1)

\* fetch_data is called: attempt is the loop variable, log the ends of the
\* requests made, delays the sleeps taken, result what it returned
Fetching ==
    [pc |-> "attempt", attempt |-> 0, log |-> <<>>, delays |-> <<>>,
     result |-> "pending"]

InitFetch ==
    /\ call = NoCall
    /\ res = NoResult
    /\ ExtractorConstructed
    /\ auto_training_file = Absent
    /\ review_queue_file = Absent
    /\ stats_file = Absent
    /\ flush = Idle
    /\ peer = NoPeer
    /\ reviewed_data_file = Absent
    /\ review = NotReviewing
    /\ backup_file = Absent
    /\ fetch = [f \in Fetchers |-> Fetching]
    /\ semaphore = MaxPermits

\* async with semaphore: a permit is taken and the request is sent
acquire(f) ==
    /\ fetch[f].pc = "attempt"
    /\ semaphore > 0
    /\ semaphore' = semaphore - 1
    /\ fetch' = [fetch EXCEPT ![f].pc = "request"]
    /\ UNCHANGED <<call, res, stats, auto_training_queue, review_queue, inp, resp,
                   disk, flush, peer, offline>>

\* the request ends, at the latest by REQUEST_TIMEOUT: the permit is given back
\* on the way out of the async with block; then the body is returned, or the
\* handler of the exception sleeps, or the loop is left and None returned
request_ends(f) ==
    /\ fetch[f].pc = "request"
    /\ semaphore' = semaphore + 1
    /\ \E outcome \in Outcomes :
          LET attempt == fetch[f].attempt
              log == Append(fetch[f].log, outcome)
          IN fetch' =
                [fetch EXCEPT ![f] =
                    IF outcome = "body"
                    THEN [@ EXCEPT !.pc = "done", !.log = log, !.result = "body"]
                    ELSE IF outcome \in {"timeout", "client_error"}
                            /\ attempt < RETRY_ATTEMPTS - 1
                    THEN [@ EXCEPT !.pc = "sleep", !.log = log]
                    ELSE [@ EXCEPT !.pc = "done", !.log = log, !.result = "None"]]
    /\ UNCHANGED <<call, res, stats, auto_training_queue, review_queue, inp, resp,
                   disk, flush, peer, offline>>

\* await asyncio.sleep(RETRY_DELAY * (attempt + 1)) is over; continue
sleep_ends(f) ==
    /\ fetch[f].pc = "sleep"
    /\ fetch' = [fetch EXCEPT ![f].pc = "attempt",
                              ![f].delays = Append(@, backoff(fetch[f].attempt)),
                              ![f].attempt = @ + 1]
    /\ UNCHANGED <<call, res, stats, auto_training_queue, review_queue, inp, resp,
                   disk, flush, peer, offline, semaphore>>

NextFetch == \E f \in Fetchers : acquire(f) \/ request_ends(f) \/ sleep_ends(f)

SpecFetch == InitFetch /\ [][NextFetch]_vars

\* the event loop runs every coroutine that can go on: a waiter gets a freed
\* permit, a request ends by its timeout, a sleep ends
SpecFetchFair ==
    /\ SpecFetch
    /\ \A f \in Fetchers :
          /\ WF_vars(acquire(f))
          /\ WF_vars(request_ends(f))
          /\ WF_vars(sleep_ends(f))

Init == InitResolve \/ InitExtract

Next == Resolve \/ ExtractListing \/ Return

Spec == Init /\ [][Next]_vars

----------------------------------------------------------------------------
(* Properties of a direct resolver call (SpecResolve)                       *)

Returned == res /= NoResult

\* the call went through normalize, classify, resolve (no manual override)
ReturnedAuto == Returned /\ call.manual_override = None

Present(v) == v /= None

\* the number a canonical form "<digits><unit>" stands for
Magnitude(v) == ToInt(SelectSeq(v.s, IsDigit))

MlSelected == IF call.prefer_ml THEN call.ml_raw ELSE call.regex_raw

PreferredMethod == IF call.prefer_ml THEN "ML_PREFERRED" ELSE "REGEX_PREFERRED"

C4_MinorResolution ==
    (ReturnedAuto /\ res.disagreement_type = "MINOR_FORMATTING") =>
        LET a == Present(res.normalized_ml)
            b == Present(res.normalized_regex)
        IN /\ (a /\ b) =>
                 /\ res.resolved_value = MlSelected
                 /\ res.resolution_method = "AUTO_NORMALIZED"
                 /\ res.confidence = 90
           /\ (a /\ ~b) =>
                 /\ res.resolved_value = call.ml_raw
                 /\ res.resolution_method = "ML_PREFERRED"
                 /\ res.confidence = 75
           /\ (~a /\ b) =>
                 /\ res.resolved_value = call.regex_raw
                 /\ res.resolution_method = "REGEX_PREFERRED"
                 /\ res.confidence = 80

\* only the ML source is present while the resolver prefers the regex side
C4_Witness ==
    /\ ReturnedAuto
    /\ ~call.prefer_ml
    /\ Present(res.normalized_ml) /\ ~Present(res.normalized_regex)
    /\ res.resolution_method = "ML_PREFERRED"
    /\ res.confidence = 75

\* C5: with a manual override X that is not None, whatever the two raw values
\* and prefer_ml are, resolve returns X with method MANUAL, disagreement type
\* NONE and confidence 1.0.
C5_ManualOverrideWins ==
    (Returned /\ call.manual_override /= None) =>
        /\ res.resolved_value = call.manual_override
        /\ res.resolution_method = "MANUAL"
        /\ res.disagreement_type = "NONE"
        /\ res.confidence = 100

\* an override over two raw values whose numbers differ
C5_Witness ==
    /\ Returned
    /\ call.manual_override /= None
    /\ Present(res.normalized_ml) /\ Present(res.normalized_regex)
    /\ Magnitude(res.normalized_ml) /= Magnitude(res.normalized_regex)
    /\ res.resolved_value = call.manual_override

FieldUnits == IF call.field = "mileage" THEN UNITS ELSE PowerUNITS

\* s holds a digit that is followed, after optional blanks, by a unit word
HasDigitUnitPair(s, units) ==
    \E i \in 1..Len(s) :
        /\ IsDigit(s[i])
        /\ \E u \in DOMAIN units : At(s, SpanLen(s, i + 1, {" "}) + 1, u)

\* None, not a string, empty, blank, or without a digit+unit pair
Unparsable(v, units) ==
    \/ v = None
    \/ ~IsStr(v)
    \/ Strip(v.s) = <<>>
    \/ ~HasDigitUnitPair(Lower(v.s), units)

SameRaw == call.ml_raw = call.regex_raw /\ IsStr(call.ml_raw)

AgreedAsIs ==
    /\ res.disagreement_type = "NONE"
    /\ res.resolved_value = call.ml_raw
    /\ res.resolution_method = "AUTO_NORMALIZED"
    /\ res.confidence = 95

\* C6 as stated: for every raw string a that carries a unit (a number followed
\* by a unit word of the field), resolve(a, a) is classified NONE and returns a
\* with AUTO_NORMALIZED and confidence 0.95.
C6_Original ==
    (ReturnedAuto /\ SameRaw /\ HasDigitUnitPair(Lower(call.ml_raw.s), FieldUnits))
        => AgreedAsIs

\* C6 amended: for every raw string a that the normalizer of the field accepts
\* (a leading digit run, blanks allowed between digits, then optional blanks and
\* a unit word of the field), resolve(a, a) is classified NONE and returns a
\* with AUTO_NORMALIZED and confidence 0.95, for either prefer_ml.
C6_Idempotence ==
    (ReturnedAuto /\ SameRaw /\ Present(res.normalized_ml)) => AgreedAsIs

\* the same raw string on both sides, written differently from its canonical form
C6_Witness ==
    /\ ReturnedAuto /\ SameRaw
    /\ Present(res.normalized_ml)
    /\ res.normalized_ml /= call.ml_raw
    /\ res.resolved_value = call.ml_raw
    /\ res.confidence = 95

\* C7: a raw value that is None, empty, blank, not a string or without a
\* digit+unit pair normalizes to None; and when neither raw value normalizes,
\* resolve returns None with AUTO_NORMALIZED, confidence 0.0 and type NONE.
C7_ParseFailureIsAbsence ==
    /\ Returned =>
          /\ Unparsable(call.ml_raw, FieldUnits) => res.normalized_ml = None
          /\ Unparsable(call.regex_raw, FieldUnits) => res.normalized_regex = None
    /\ (ReturnedAuto /\ res.normalized_ml = None /\ res.normalized_regex = None) =>
          /\ res.resolved_value = None
          /\ res.resolution_method = "AUTO_NORMALIZED"
          /\ res.confidence = 0
          /\ res.disagreement_type = "NONE"

\* two non-empty strings, neither of which normalizes
C7_Witness ==
    /\ ReturnedAuto
    /\ IsStr(call.ml_raw) /\ Truthy(call.ml_raw)
    /\ IsStr(call.regex_raw) /\ Truthy(call.regex_raw)
    /\ call.ml_raw /= call.regex_raw
    /\ res.normalized_ml = None /\ res.normalized_regex = None
    /\ res.resolved_value = None /\ res.confidence = 0

----------------------------------------------------------------------------
(* Properties of extract (SpecExtract)                                      *)

Responded == resp.t = "response"

\* the step in which extract returns
ExtractReturns == resp = NoResult /\ resp'.t = "response"

AppendedOne(old, new, car_id) ==
    /\ Len(new) = Len(old) + 1
    /\ SubSeq(new, 1, Len(old)) = old
    /\ new[Len(new)].car_id = car_id

\* C1: the routing of extract follows the number of agreeing fields: four gives
\* one new auto-training entry and no review entry; zero or one gives one new
\* review entry and no auto-training entry; two or three gives neither; and
\* flagged_for_review is true exactly in the review case.
C1_QueueRouting ==
    [][ExtractReturns =>
        LET n == Len(inp'.comparison.agreements)
        IN /\ n = 4 =>
                /\ AppendedOne(auto_training_queue, auto_training_queue', inp'.car_id)
                /\ review_queue' = review_queue
           /\ n <= 1 =>
                /\ AppendedOne(review_queue, review_queue', inp'.car_id)
                /\ auto_training_queue' = auto_training_queue
           /\ n \in {2, 3} =>
                /\ auto_training_queue' = auto_training_queue
                /\ review_queue' = review_queue
           /\ resp'.flagged_for_review = (n <= 1)]_vars

\* a listing with one agreeing field went to the review queue
C1_Witness ==
    /\ Responded
    /\ Len(inp.comparison.agreements) = 1
    /\ resp.flagged_for_review
    /\ review_queue /= <<>>
    /\ review_queue[Len(review_queue)].car_id = inp.car_id

Agrees(f) == InList(f, inp.comparison.agreements)

Disagrees(f) == InList(f, inp.comparison.disagreements)

BothFound(f) == inp.ml_result[f] /= None /\ inp.regex_result[f] /= None

ResolutionOf(f) == IF f = "power" THEN resp.power_resolution ELSE resp.mileage_resolution

\* the field's two values are a mismatch: MAJOR for the resolved fields, two
\* different present values for the others
Mismatch(f) ==
    IF f \in {"power", "mileage"}
    THEN ResolutionOf(f).disagreement_type = "MAJOR"
    ELSE BothFound(f) /\ inp.ml_result[f] /= inp.regex_result[f]

\* C9 as stated: each of the four fields agrees unless its two values are a
\* mismatch between two present values; absent from both, or found by one
\* source only, counts as agreeing.
C9_Original == Responded => \A f \in FieldSet : Agrees(f) <=> ~Mismatch(f)

\* C9 amended: power and mileage agree iff their classification is NONE or
\* MINOR_FORMATTING and disagree iff it is MAJOR; year and fuel agree iff both
\* sources found a value and the raw values are equal, disagree iff both found
\* different values, and otherwise (none or one source) count as neither.
C9_FieldAgreement ==
    Responded =>
        /\ \A f \in {"power", "mileage"} :
              /\ Agrees(f) <=>
                    ResolutionOf(f).disagreement_type \in {"NONE", "MINOR_FORMATTING"}
              /\ Disagrees(f) <=> ResolutionOf(f).disagreement_type = "MAJOR"
        /\ \A f \in {"year", "fuel"} :
              /\ Agrees(f) <=> (BothFound(f) /\ inp.ml_result[f] = inp.regex_result[f])
              /\ Disagrees(f) <=> (BothFound(f) /\ inp.ml_result[f] /= inp.regex_result[f])

\* mileage agrees by a one-sided MINOR_FORMATTING while the year, found by one
\* source only, is neither an agreement nor a disagreement
C9_Witness ==
    /\ Responded
    /\ resp.mileage_resolution.disagreement_type = "MINOR_FORMATTING"
    /\ Agrees("mileage")
    /\ inp.ml_result["year"] = None /\ inp.regex_result["year"] /= None
    /\ ~Agrees("year") /\ ~Disagrees("year")

AnyMajor ==
    \/ resp.power_resolution.disagreement_type = "MAJOR"
    \/ resp.mileage_resolution.disagreement_type = "MAJOR"

\* C10: the label is high for full agreement unless a resolution is MAJOR (then
\* medium), medium for partial and low for none; so a returned label of high
\* means that neither power nor mileage is MAJOR.
C10_ConfidenceLabel ==
    Responded =>
        /\ resp.confidence =
              (IF resp.agreement = "full"
               THEN IF AnyMajor THEN "medium" ELSE "high"
               ELSE IF resp.agreement = "partial" THEN "medium" ELSE "low")
        /\ resp.confidence = "high" => ~AnyMajor

\* a partial agreement with a MAJOR mileage, labelled medium
C10_Witness ==
    /\ Responded
    /\ resp.agreement = "partial"
    /\ resp.mileage_resolution.disagreement_type = "MAJOR"
    /\ resp.confidence = "medium"

----------------------------------------------------------------------------
(* Properties of both entry points (Spec)                                   *)

\* C8: a resolution carries ml_raw and regex_raw as they were passed and its
\* resolved value is one of ml_raw, regex_raw, the manual override or None; each
\* field of the raw_values of extract is the raw value one of the two
\* extractors returned for that field, or None.
C8_RawValuesKept ==
    /\ Returned =>
          /\ res.ml_raw = call.ml_raw
          /\ res.regex_raw = call.regex_raw
          /\ res.resolved_value \in
                {call.ml_raw, call.regex_raw, call.manual_override, None}
    /\ Responded =>
          \A f \in FieldSet :
              resp.raw_values[f] \in {inp.ml_result[f], inp.regex_result[f], None}

\* an agreement of two raw values that differ from their canonical form
C8_Witness ==
    /\ ReturnedAuto
    /\ res.disagreement_type = "NONE"
    /\ Present(res.normalized_ml)
    /\ res.normalized_ml /= call.ml_raw
    /\ res.normalized_ml /= call.regex_raw
    /\ res.resolved_value = call.ml_raw

----------------------------------------------------------------------------
(* Properties of the queues and their files over a scraper run (SpecQueues) *)

IsPrefix(p, q) == Len(p) <= Len(q) /\ SubSeq(q, 1, Len(p)) = p

NoDuplicate(q) == \A i, j \in 1..Len(q) : q[i].car_id = q[j].car_id => i = j

SaveReturns == resp = NoResult /\ resp'.t = "saved"

\* C11: however often a car_id is processed, each queue (what its file holds
\* followed by what is still in memory) holds at most one entry for it.
C11_OneEntryPerCar ==
    /\ NoDuplicate(auto_training_file.entries \o auto_training_queue)
    /\ NoDuplicate(review_queue_file.entries \o review_queue)

\* C12: a save_queues call that returns leaves each queue file with its previous
\* entries followed by the in-memory entries in insertion order and empties
\* both in-memory queues; with both queues empty it leaves both files as they
\* were; and no step at all changes, reorders or removes a persisted entry.
C12_AppendOnlyFlush ==
    [][/\ IsPrefix(auto_training_file.entries, auto_training_file'.entries)
       /\ IsPrefix(review_queue_file.entries, review_queue_file'.entries)
       /\ SaveReturns =>
            /\ auto_training_file'.entries =
                  auto_training_file.entries \o auto_training_queue
            /\ review_queue_file'.entries = review_queue_file.entries \o review_queue
            /\ auto_training_file'.t /= "partial"
            /\ review_queue_file'.t /= "partial"
            /\ auto_training_queue' = <<>>
            /\ review_queue' = <<>>
            /\ (auto_training_queue = <<>> /\ review_queue = <<>>) =>
                  UNCHANGED <<auto_training_file, review_queue_file>>]_vars

\* a flush that appended two review entries, in their order, after the one an
\* earlier run had left, and one that found nothing to append
C12_Witness ==
    /\ resp.t = "saved"
    /\ flush.before[2] = PersistedReview
    /\ Len(flush.wrote[2]) = 2
    /\ flush.wrote[2][1] /= flush.wrote[2][2]
    /\ review_queue_file = Json(PersistedReview \o flush.wrote[2])
    /\ auto_training_file = Json(PersistedAuto)
    /\ review_queue = <<>>

\* C15: an extract call during which the learned model raises still returns a
\* record to its caller: the exception does not leave extract.
C15_ModelFailureContained == inp.t = "extract" => resp.t = "response"

\* C16: after any number of extract calls no update of a counter is missing: the
\* three agreement counters add up to total_extractions, and no field was
\* classified more often than there were calls.
C16_CountersExact ==
    /\ stats.full_agreements + stats.partial_agreements + stats.disagreements
          = stats.total_extractions
    /\ \A f \in FieldSet :
          stats.field_stats[f].agree + stats.field_stats[f].disagree
              <= stats.total_extractions

----------------------------------------------------------------------------
(* Properties of an interrupted flush (SpecFlush) and of two processes      *)
(* flushing to the same files (SpecWriters)                                 *)

QueueFile(i) == IF i = 1 THEN auto_training_file ELSE review_queue_file

Complete(file) == file.t /= "partial"

\* C13: after a flush that was interrupted, by a kill or by a write error, each
\* queue file holds completely either what it held when the flush began or
\* that followed by the entries the flush appended.
C13_AtomicRewrite ==
    resp.t \in {"io_error", "killed"} =>
        \A i \in 1..2 :
            /\ Complete(QueueFile(i))
            /\ QueueFile(i).entries \in
                  {flush.before[i], flush.before[i] \o flush.wrote[i]}

\* C14: when save_queues fails with an I/O error, the entries each queue file
\* held before the call can still be read from it, and a later save_queues
\* call is not refused because of what the failure left on disk.
C14_FailureLosesNothing ==
    /\ resp.t = "io_error" =>
          \A i \in 1..2 :
              /\ Complete(QueueFile(i))
              /\ IsPrefix(flush.before[i], QueueFile(i).entries)
    /\ ~(inp.t = "save_queues" /\ resp.t = "raised")

\* C17: once both processes have flushed, each queue file holds every entry it
\* held before either flush and every entry either process appended.
C17_ConcurrentAppend ==
    (resp.t = "saved" /\ peer.w.pc = "returned") =>
        \A i \in 1..2 :
            \A q \in {flush.before[i], flush.wrote[i], peer.w.before[i],
                      peer.w.wrote[i]} :
                \A k \in 1..Len(q) : InList(q[k], QueueFile(i).entries)


----------------------------------------------------------------------------
(* Properties of the pattern finders (SpecPatterns)                         *)

FinderReturned == res.t = "found"

\* what each tier of the finder called accepts in the text of the call
TiersOfCall ==
    CASE call.t = "find_years" -> year_tiers(call.text)
      [] call.t = "find_mileage" -> mileage_tiers(call.text)
      [] call.t = "find_power" -> power_tiers(call.text)

AllOfTier(matches, confidence) ==
    \A i \in 1..Len(matches) : matches[i].confidence = confidence

\* C18: the tiers are a fallback chain and not a union: when the HIGH tier
\* accepts a candidate every returned candidate is of the HIGH tier, when it
\* accepts none and the MEDIUM tier accepts one every returned candidate is of
\* the MEDIUM tier, LOW candidates are returned only when neither accepted
\* one, and only by find_years; so the candidates returned by one call are all
\* of one tier.
C18_TierFallback ==
    FinderReturned =>
        LET tiers == TiersOfCall
            matches == res.matches
        IN /\ tiers.high /= <<>> => matches /= <<>> /\ AllOfTier(matches, "high")
           /\ tiers.high = <<>> /\ tiers.medium /= <<>> =>
                  matches /= <<>> /\ AllOfTier(matches, "medium")
           /\ tiers.high = <<>> /\ tiers.medium = <<>> =>
                  /\ AllOfTier(matches, "low")
                  /\ matches /= <<>> => call.t = "find_years"
           /\ \A i, j \in 1..Len(matches) :
                  matches[i].confidence = matches[j].confidence

\* a finder has returned for a text in which the HIGH tier accepted a candidate
\* and a lower tier would have accepted one too
C18_Witness ==
    /\ FinderReturned
    /\ TiersOfCall.high /= <<>>
    /\ TiersOfCall.medium /= <<>> \/ TiersOfCall.low /= <<>>

\* part occurs in text
Contains(text, part) ==
    \E i \in 1..(Len(text) - Len(part) + 1) :
        SubSeq(text, i, i + Len(part) - 1) = part

ReturnedYears == {res.matches[i].text : i \in 1..Len(res.matches)}

Year2015 == <<"2", "0", "1", "5">>

Year2027 == <<"2", "0", "2", "7">>

C20_LongestPerStart ==
    FinderReturned =>
        LET candidates == fallback(TiersOfCall)
            matches == res.matches
        IN /\ \A i, j \in 1..Len(matches) :
                  i < j => matches[i].start < matches[j].start
           /\ \A i \in 1..Len(matches), k \in 1..Len(candidates) :
                  candidates[k].start = matches[i].start =>
                      candidates[k].end <= matches[i].end

\* the year the match captures lies inside a match of an exclusion pattern
InExcludedSpan(text, m) ==
    LET ex == finditer_all(YEAR_EXCLUDE, text)
    IN \E i \in 1..Len(ex) :
          ex[i].span[1] <= m.g[1][1] /\ m.g[1][2] <= ex[i].span[2]

\* C25: the exclusion acts on spans and not on values: a year of 1990 to 2026
\* that a HIGH pattern captures outside every match of an exclusion pattern is
\* returned as a candidate, also when the same four digits stand elsewhere in
\* the text in an excluded context, as in "rok výroby 2015, servis 2015".
C25_ExclusionBySpan ==
    FinderReturned /\ call.t = "find_years" =>
        LET high == finditer_all(YEAR_HIGH_CONFIDENCE, call.text)
        IN \A i \in 1..Len(high) :
              LET year_str == Slice(call.text, high[i].g[1])
              IN /\ 1990 <= ToInt(year_str) /\ ToInt(year_str) <= 2026
                 /\ ~InExcludedSpan(call.text, high[i])
                 => \E k \in 1..Len(res.matches) :
                       /\ res.matches[k].start = high[i].g[1][1] - 1
                       /\ res.matches[k].text = year_str

\* C28: the mileage the output record stores agrees with the mileage the
\* finder parsed: for every candidate find_mileage returns, normalize_mileage
\* of the candidate's text is the value _parse_mileage gave the candidate.
C28_StoredEqualsParsed ==
    FinderReturned /\ call.t = "find_mileage" =>
        \A i \in 1..Len(res.matches) :
            normalize_mileage(Str(res.matches[i].text))
                = IntVal(res.matches[i].value)

----------------------------------------------------------------------------
(* Properties of a direct normalizer call (SpecNormalize)                   *)

Normalized == res.t = "normalized"

\* the digits and the unit of the call in canonical form
Canonical == Str(JoinGroups(call.groups, <<>>) \o Lower(call.unit))

NormalizeAgain(v) ==
    IF call.field = "mileage" THEN normalize(v) ELSE power_normalize(v)

\* a group of one digit with a blank on either side
LoneInnerGroup ==
    /\ call.sep /= <<>>
    /\ \E i \in 2..(Len(call.groups) - 1) : Len(call.groups[i]) = 1

----------------------------------------------------------------------------
(* Properties of a run in which every extract call returns (SpecReturning)  *)

\* the entries of q that this run's extractor produced
Produced(q) == Len(SelectSeq(q, LAMBDA e : e.car_id \in urls))

\* C27: after any sequence of extract calls that return and of save_queues
\* calls, total_extractions is the sum of the three agreement counters,
\* full_agreements is the number of auto-training entries the extractor has
\* produced (flushed or still in memory), disagreements the number of review
\* entries it has produced, and for each field agree + disagree is at most
\* total_extractions.
C27_CountersConsistent ==
    /\ stats.total_extractions
          = stats.full_agreements + stats.partial_agreements + stats.disagreements
    /\ stats.full_agreements
          = Produced(auto_training_file.entries \o auto_training_queue)
    /\ stats.disagreements = Produced(review_queue_file.entries \o review_queue)
    /\ \A f \in FieldSet :
          stats.field_stats[f].agree + stats.field_stats[f].disagree
              <= stats.total_extractions

\* a full agreement has been flushed and a disagreement is still in memory
C27_Witness ==
    /\ stats.full_agreements >= 1
    /\ Produced(auto_training_file.entries) >= 1
    /\ stats.disagreements >= 1
    /\ review_queue /= <<>>

----------------------------------------------------------------------------
(* Properties of a direct _add_to_auto_training call (SpecAutoTraining)     *)

EntityLabel == [mileage |-> "MILEAGE", year |-> "YEAR", power |-> "POWER", fuel |-> "FUEL"]

\* the example the call appended
Appended == auto_training_queue[Len(auto_training_queue)].data

\* the entity labels the resolved raw value of field f in the text
LabelsResolved(entity, f) ==
    /\ entity[3] = EntityLabel[f]
    /\ Truthy(call.result[f])
    /\ Lower(SubSeq(call.text, entity[1] + 1, entity[2])) = Lower(call.result[f].s)

\* C23: every entity (start, end, FIELD) of an appended auto-training example
\* has 0 <= start < end <= len(text) and text[start:end] equal, without regard
\* to case, to the resolved raw value of the field; and every field whose
\* resolved raw value occurs in the text has exactly one entity.
C23_EntitiesLabelResolved ==
    call.t = "add_to_auto_training" /\ res /= NoResult =>
        /\ \A k \in 1..Len(Appended.entities) :
              LET entity == Appended.entities[k]
              IN /\ 0 <= entity[1] /\ entity[1] < entity[2]
                 /\ entity[2] <= Len(call.text)
                 /\ \E f \in FieldSet : LabelsResolved(entity, f)
        /\ \A f \in FieldSet :
              Truthy(call.result[f])
                  /\ str_find(Lower(call.text), Lower(call.result[f].s)) >= 0
              => Cardinality({k \in 1..Len(Appended.entities) :
                                 Appended.entities[k][3] = EntityLabel[f]}) = 1

----------------------------------------------------------------------------
(* Properties of the review sessions between scraper runs (SpecReview)      *)

\* the car ids that have an entry in the manual-review data file
ReviewedIds ==
    IF reviewed_data_file.t = "absent" THEN {}
    ELSE reviewed_car_ids(reviewed_data_file.entries)

\* no case of the pass in progress belongs to a reviewed listing
NoReviewedCase ==
    review.pc = "case" =>
        \A k \in 1..Len(review.queue) : review.queue[k].car_id \notin ReviewedIds

\* a pass that starts on a queue file all of whose entries are reviewed
\* presents nothing and removes the file
AllReviewedPass ==
    /\ review.pc \in {"idle", "done"}
    /\ review' /= review
    /\ review_queue_file.t /= "absent"
    /\ review_queue_file.entries /= <<>>
    /\ \A k \in 1..Len(review_queue_file.entries) :
          review_queue_file.entries[k].car_id \in ReviewedIds
    => /\ review'.pc = "done"
       /\ review'.queue = <<>>
       /\ review_queue_file' = Absent

\* C21: once a car_id has an entry in the manual-review data file, no later
\* review_all pass presents a queue entry with that car_id, also when a later
\* extraction run queued the listing again; and when every queued entry is
\* already reviewed, the pass presents nothing and removes the queue file.
C21_ReviewedExcluded == []NoReviewedCase /\ [][AllReviewedPass]_vars

\* a pass is at the prompt of a case after it dropped, from the queue it read,
\* an entry of a listing that was reviewed before and queued again
C21_Witness ==
    /\ review.pc = "case"
    /\ Len(review.queue) < Len(review.loaded)
    /\ \E k \in 1..Len(review.loaded) : review.loaded[k].car_id \in urls

\* C22: a review session loses no queue entry: after review_all has ended, by
\* reaching the end of the queue or by quit, every entry that was pending when
\* it started is recorded in the manual-review data file or still in the
\* review-queue file.
C22_NoEntryLost ==
    review.pc = "done" =>
        \A k \in 1..Len(review.loaded) :
            \/ review.loaded[k].car_id \in ReviewedIds
            \/ InList(review.loaded[k], review_queue_file.entries)

\* the value the resolver chose for a field on which the extractors of the
\* case agree
resolved_for(case, field) ==
    IF field = "power"
    THEN resolve_power(case.ml_result["power"], case.regex_result["power"],
                       FALSE, None).resolved_value
    ELSE IF field = "mileage"
    THEN resolve_mileage(case.ml_result["mileage"], case.regex_result["mileage"],
                         TRUE, None).resolved_value
    ELSE case.ml_result[field]

\* the case under review is reviewed: each field its comparison lists as an
\* agreement carries the resolved value
AgreementsKeepResolved ==
    Len(review'.reviewed_data) > Len(review.reviewed_data) =>
        LET case == review.queue[review.i]
            entry == review'.reviewed_data[Len(review'.reviewed_data)]
        IN \A f \in FieldSet :
              InList(f, case.comparison.agreements)
                  => entry.corrected_result[f] = resolved_for(case, f)

\* C29: in a reviewed training example a field that the queued comparison
\* lists as an agreement is labelled with the value resolved for it: when only
\* the pattern extractor found the power or the mileage (MINOR_FORMATTING,
\* counted as an agreement), the example carries that value and does not
\* leave the field empty.
C29_AgreementsKeepResolved == [][AgreementsKeepResolved]_vars

----------------------------------------------------------------------------
(* Properties of a fix_training_file call (SpecFix)                         *)

\* C30: when fix_training_file changes a training-data file, the backup file
\* it writes holds the file's original content, the entity lists as they were
\* before the overlaps were removed.
C30_BackupIsOriginal ==
    res /= NoResult /\ call.t = "fix_training_file" /\ res.fixed_examples > 0
        => backup_file = Json(call.data)

----------------------------------------------------------------------------
(* Properties of the fetch_data coroutines (SpecFetchFair)                  *)

Retried == {"timeout", "client_error"}

\* what holds of one coroutine at any time: at most RETRY_ATTEMPTS requests,
\* every request but the last ended in a timeout or a client error, the k-th
\* retry came after a sleep of RETRY_DELAY * k, and a coroutine that returned
\* returned the body of its last request, or None after a last request that
\* failed: the RETRY_ATTEMPTS-th, or one that ended in another exception
FetchBounded(f) ==
    LET c == fetch[f]
        n == Len(c.log)
    IN /\ n <= RETRY_ATTEMPTS
       /\ \A k \in 1..(n - 1) : c.log[k] \in Retried
       /\ Len(c.delays) = c.attempt
       /\ \A k \in 1..Len(c.delays) : c.delays[k] = RETRY_DELAY * k
       /\ c.pc \in {"attempt", "request"} => n = c.attempt
       /\ c.pc = "sleep" => n = c.attempt + 1 /\ c.log[n] \in Retried
       /\ c.pc = "done" =>
             /\ n = c.attempt + 1
             /\ c.result = "body" <=> c.log[n] = "body"
             /\ c.result = "None" <=>
                   \/ c.log[n] = "exception"
                   \/ c.log[n] \in Retried /\ n = RETRY_ATTEMPTS
       /\ c.pc /= "done" => c.result = "pending"

\* the permits taken are those of the requests in flight
PermitsInFlight ==
    semaphore = MaxPermits - Cardinality({f \in Fetchers : fetch[f].pc = "request"})

\* C26: fetch_data terminates for every URL after at most RETRY_ATTEMPTS
\* requests: it returns the body of the first request that succeeds, retries
\* after a timeout or a client error following a delay of RETRY_DELAY times
\* the number of the attempt, does not retry after another exception, and
\* returns None once the attempts are used up; the semaphore is held only
\* while a request is in flight, never during the delay.
C26_FetchTerminates ==
    /\ [](PermitsInFlight /\ \A f \in Fetchers : FetchBounded(f))
    /\ \A f \in Fetchers : <>(fetch[f].pc = "done")

\* one coroutine has returned None after RETRY_ATTEMPTS failed requests and
\* delays of RETRY_DELAY and 2 * RETRY_DELAY, another sleeps before a retry
\* while the permit is free
C26_Witness ==
    /\ \E f \in Fetchers :
          /\ fetch[f].pc = "done" /\ fetch[f].result = "None"
          /\ Len(fetch[f].log) = RETRY_ATTEMPTS
          /\ fetch[f].delays = <<RETRY_DELAY, 2 * RETRY_DELAY>>
    /\ \E f \in Fetchers : fetch[f].pc = "sleep"
    /\ semaphore = MaxPermits

====
